---- MODULE Spec2Model ----
(***************************************************************************)
(* create-codex: the transactional file-mutation engine of src/atomic.ts   *)
(* (withRetry, acquireLock, atomicWrite/Copy/Move, TransactionLog) and its  *)
(* callers in src/files.ts.                                                 *)
(*                                                                         *)
(* Execution model: one Node.js event loop.  A step of the model is one    *)
(* turn of the loop: the completion of a filesystem call or a timer,       *)
(* followed by every promise continuation it makes runnable (microtasks    *)
(* run to completion before the next completion is delivered).             *)
(***************************************************************************)
EXTENDS Integers, Sequences, FiniteSets, TLC

\* ------------------------------------------------------------------ bounds
NumTasks == 3
\* acquireLock calls made in all by the callers of Spec
MaxCalls == 4
\* tasks that call atomicWrite in SpecWrite
NumWriters == 2
\* injected filesystem failures in one run
MaxFaults == 1
\* write/copy calls made on one TransactionLog
MaxOps == 2
\* transactions that run concurrently in SpecTx2
NumTx == 2
\* concurrent calls of copyCodexDirectory / copyAdditionalFiles in SpecFiles
NumCopies == 2
\* files found under skel/.codex
MaxFiles == 1
\* the largest maxRetries given to withRetry in SpecRetry
MaxRetriesArg == 6
\* the longest file given to verifyBackup in SpecVerify
MaxBytes == 2
\* rollback() calls made on one TransactionLog in SpecTxEnd
MaxRollbacks == 2
\* limitConcurrency: at most MaxItems tasks, limit at most MaxLimit
MaxItems == 4
MaxLimit == 3

Tasks == 1..NumTasks
Targets == {"A.txt", "B.txt"}

\* ------------------------------------------------------- program constants
\* acquireLock passes maxRetries = 3 to withRetry
LockMaxRetries == 3
\* the default maxRetries of withRetry: RETRY_DELAYS.length
DefaultMaxRetries == 5

Absent == "<absent>"
Foreign == "<foreign lockId>"
\* what a file holds while fs.writeFile / fs.copyFile is still writing it
Partial == "<partial>"
Old == "old"

LockFile(path) == path \o ".lock"
LockId(t) == "lockId" \o ToString(t)
\* (mutant) the new bytes are written to the target itself
TempPathInPlace(t, targetPath) == targetPath

\* join(dir, `.${basename(targetPath)}.${randomBytes(8).toString('hex')}.tmp`)
TempPath(t, targetPath) == "." \o targetPath \o "." \o ToString(t) \o ".tmp"
\* the content a task writes
ContentOf(t) == "new" \o ToString(t)
\* the content of the j-th write of a task's transaction
TxContent(t, j) == "new" \o ToString(t) \o "." \o ToString(j)
\* join(this.backupDir, randomBytes(8).toString('hex')): the k-th backup
\* of the transaction of task t
BackupPath(t, k) == "tx" \o ToString(t) \o "/" \o ToString(k)
BackupPaths == {BackupPath(t, k) : t \in Tasks, k \in 1..MaxOps}

\* join(projectPath, '.codex') and its copy join(backupDir, '.codex')
CodexTarget == ".codex"
CodexBackup == "backup/.codex"

LockPaths == Targets \cup BackupPaths \cup {CodexTarget, CodexBackup}

\* another string for the same file: a relative path with a redundant "./"
Alias(path) == "./" \o path
\* the file that a path string denotes
FileOf(path) == IF \E p \in LockPaths : path = Alias(p)
                THEN CHOOSE p \in LockPaths : path = Alias(p)
                ELSE path
\* the strings given to acquireLock: locks and lockQueue are Maps keyed by
\* the string as given
LockKeys == LockPaths \cup {Alias(p) : p \in Targets}
\* join(projectPath, `.create-codex-test-${Date.now()}`)
TestFile == ".create-codex-test"

\* join(projectPath, `.create-codex-backup-${timestamp}`), and what the disk
\* holds at the path of a directory made by fs.mkdir
BackupDirName == ".create-codex-backup"
Directory == "<dir>"

AllPaths ==
  LockPaths \cup {LockFile(p) : p \in LockPaths}
            \cup {TempPath(t, p) : t \in Tasks, p \in LockPaths}
            \cup {TestFile, BackupDirName}

VARIABLES
  fs,         \* the disk: path -> content, Absent when there is no such file
  locks,      \* keys of the Map `locks`
  lockQueue,  \* the Map `lockQueue`: path -> waiters, <<>> when it has no key
  lk,         \* per task: its acquireLock call [pc, path, i, n]
  ao,         \* per task: its atomicWrite/atomicCopy/atomicMove call
  faults,     \* filesystem failures injected so far
  win32,      \* process.platform === 'win32'
  pre,        \* the disk as it was at the start
  pf,         \* a call of withRetry or of verifyBackup made on its own
  tx,         \* per task: its TransactionLog and the method it is in
  fl,         \* per task: its copyCodexDirectory / copyAdditionalFiles call
  had         \* per task and target: whether the target existed when the
              \* task's transaction first mutated it ("?" before that)

lockVars == <<locks, lockQueue, lk>>
\* what the lock and the atomic operations never change
rest == <<win32, pre, pf, tx, fl>>
envVars == <<faults, had, rest>>
vars == <<fs, locks, lockQueue, lk, ao, faults, had, win32, pre, pf, tx, fl>>

TxOff ==
  [pc |-> "off", ops |-> <<>>, nb |-> 0, n |-> 0, kind |-> "", src |-> "", path |-> "",
   content |-> "", k |-> 0, threw |-> FALSE, rbErr |-> FALSE,
   log |-> <<>>, rbs |-> 0, ended |-> FALSE, rbAt |-> 0]
FlOff == [pc |-> "off", fn |-> "", n |-> 0, j |-> 0, i |-> 0, checks |-> <<>>,
          backupDir |-> ""]

PfOff == [fn |-> ""]

IdleOp ==
  [pc |-> "idle", op |-> "", src |-> "", dst |-> "", content |-> "",
   i |-> 0, ok |-> FALSE, rm |-> FALSE, unlocks |-> 0, tempErr |-> FALSE]

\* (mutant) atomicMove on two devices that removes the source whether or not
\* atomicCopy installed the content
AfterUnlockRmAlways(A, t) ==
  IF A[t].pc = "unlock"
  THEN [A EXCEPT ![t].pc = IF A[t].rm THEN "rmsrc"
                           ELSE IF ~A[t].ok THEN "threw" ELSE "returned"]
  ELSE A

\* The continuation of `await unlock()` in atomicWrite/atomicCopy/atomicMove:
\* the call returns, or rethrows what the guarded work threw.
AfterUnlock(A, t) ==
  IF A[t].pc = "unlock"
  THEN [A EXCEPT ![t].pc = IF ~A[t].ok THEN "threw"
                           ELSE IF A[t].rm THEN "rmsrc" ELSE "returned"]
  ELSE A

\* The first mutation of a target by an operation of a task's transaction
\* notes whether the target existed then.
Note(t, path) ==
  IF tx[t].pc = "mutate" /\ path \in Targets /\ had[t][path] = "?"
  THEN [had EXCEPT ![t][path] = IF fs[path] = Absent THEN "absent" ELSE "existed"]
  ELSE had

\* --------------------------------------------------------------- withRetry
Permanent == {"ENOENT", "ENOTDIR", "EISDIR"}

\* What the loop of withRetry does after attempt i (0-based) ended with
\* `result` ("ok" or an error code): return, go round again, or throw.
withRetry(i, maxRetries, result) ==
  IF result = "ok" THEN "return"
  ELSE IF i = maxRetries THEN "throw"
  ELSE IF result \in Permanent THEN "throw"
  ELSE "retry"

\* A call of withRetry on its own, turn by turn.  The record pf holds its
\* maxRetries, the loop index i, the outcomes of the invocations of the
\* operation so far (outs) and the delays waited so far (waits).
RETRY_DELAYS == <<100, 500, 1000, 2000, 5000>>
Min(a, b) == IF a < b THEN a ELSE b
Errors == {"EIO", "EEXIST"} \cup Permanent

\* (mutant) a loop that runs while i < maxRetries
ExhaustedOneEarly(i, maxRetries) == i + 1 >= maxRetries

\* `if (i === maxRetries) break`
Exhausted(i, maxRetries) == i = maxRetries

\* `const delay = RETRY_DELAYS[Math.min(i, RETRY_DELAYS.length - 1)]` and the
\* timer is set, whatever the error was
Delay(P, result) ==
  [P EXCEPT !.pc = "delay",
            !.waits = Append(@, RETRY_DELAYS[Min(P.i, Len(RETRY_DELAYS) - 1) + 1])]

\* `await operation()` ends: withRetry returns its value, or the catch block
\* runs up to the delay
Operation ==
  /\ pf.fn = "withRetry" /\ pf.pc = "invoke"
  /\ \E result \in {"ok"} \cup Errors :
       LET P == [pf EXCEPT !.outs = Append(@, result)] IN
       pf' = IF result = "ok" THEN [P EXCEPT !.pc = "returned"]
             ELSE IF Exhausted(pf.i, pf.maxRetries) THEN [P EXCEPT !.pc = "threw"]
             ELSE Delay(P, result)
  /\ UNCHANGED <<fs, lockVars, ao, faults, had, win32, pre, tx, fl>>

\* (mutant) a loop that gives up after the first delay
BackoffGivesUp ==
  /\ pf.fn = "withRetry" /\ pf.pc = "delay"
  /\ pf' = [pf EXCEPT !.pc = "threw"]
  /\ UNCHANGED <<fs, lockVars, ao, faults, had, win32, pre, tx, fl>>

\* the timer of the delay fires: a permanent code leaves the loop, any other
\* goes round again
Backoff ==
  /\ pf.fn = "withRetry" /\ pf.pc = "delay"
  /\ pf' = IF pf.outs[Len(pf.outs)] \in Permanent
           THEN [pf EXCEPT !.pc = "threw"]
           ELSE [pf EXCEPT !.pc = "invoke", !.i = @ + 1]
  /\ UNCHANGED <<fs, lockVars, ao, faults, had, win32, pre, tx, fl>>

\* ------------------------------------------------------------- acquireLock
IdleLock == [pc |-> "idle", path |-> "", i |-> 0, n |-> 0]

\* The two functions of the waiting promise: `resolve`, and the
\* `wrappedResolve` closure that is what the queue holds.
Resolve(t, n) == [fn |-> "resolve", t |-> t, n |-> n]
WrappedResolve(t, n) == [fn |-> "wrappedResolve", t |-> t, n |-> n]

\* Array.prototype.indexOf, 1-based; 0 stands for -1
IndexOf(q, x) ==
  IF \E k \in 1..Len(q) : q[k] = x
  THEN CHOOSE k \in 1..Len(q) : q[k] = x /\ \A j \in 1..(k - 1) : q[j] # x
  ELSE 0

\* queue.splice(index, 1)
Splice(q, index) == [k \in 1..(Len(q) - 1) |-> IF k < index THEN q[k] ELSE q[k + 1]]

\* (mutant) a resolve() that would still settle a promise the timeout rejected
PendingEvenIfRejected(L, e) == L[e.t].pc \in {"waiting", "timedout"} /\ L[e.t].n = e.n

\* Whether calling queue entry e still settles a pending promise: the call
\* that made it is still suspended on it.
Pending(L, e) == L[e.t].pc = "waiting" /\ L[e.t].n = e.n

\* The continuation of a woken waiter: locks.set(path, ...) and the first
\* fs.writeFile(lockFile, ..., 'wx') is issued.  A resolve() of a promise that
\* the timeout already rejected does nothing.
Resume(L, e) ==
  IF Pending(L, e) THEN [L EXCEPT ![e.t].pc = "creating", ![e.t].i = 0] ELSE L

\* `locks.delete(path)` followed by `queue.shift()()`: the state
\* [locks, lockQueue, lk] after it, with the woken waiter resumed.
WakeNext(path, K, Q, L) ==
  LET q == Q[path] IN
  IF Len(q) > 0
  THEN [locks |-> IF Pending(L, Head(q)) THEN K \cup {path} ELSE K \ {path},
        lockQueue |-> [Q EXCEPT ![path] = Tail(q)],
        lk |-> Resume(L, Head(q))]
  ELSE [locks |-> K \ {path}, lockQueue |-> Q, lk |-> L]

\* acquireLock(path) up to its first suspension
acquireLock(t, path) ==
  LET n == lk[t].n + 1 IN
  IF path \in locks
  THEN /\ lockQueue' = [lockQueue EXCEPT ![path] = Append(@, WrappedResolve(t, n))]
       /\ lk' = [lk EXCEPT ![t] = [pc |-> "waiting", path |-> path, i |-> 0, n |-> n]]
       /\ UNCHANGED locks
  ELSE /\ locks' = locks \cup {path}
       /\ lk' = [lk EXCEPT ![t] = [pc |-> "creating", path |-> path, i |-> 0, n |-> n]]
       /\ UNCHANGED lockQueue

\* the setTimeout callback of a waiter that was not woken
LockTimeout(t) ==
  /\ lk[t].pc = "waiting"
  /\ LET q == lockQueue[lk[t].path]
         index == IndexOf(q, Resolve(t, lk[t].n))
     IN lockQueue' = IF index > 0
                     THEN [lockQueue EXCEPT ![lk[t].path] = Splice(q, index)]
                     ELSE lockQueue
  /\ lk' = [lk EXCEPT ![t].pc = "timedout"]
  /\ UNCHANGED <<fs, locks, ao, envVars>>

\* (mutant) a catch block that cleans up but does not rethrow
acquireLockCatchNoThrow(t) ==
  LET w == WakeNext(lk[t].path, locks, lockQueue, lk) IN
  /\ locks' = w.locks
  /\ lockQueue' = w.lockQueue
  /\ lk' = [w.lk EXCEPT ![t].pc = "holding"]
  /\ UNCHANGED fs

\* the catch block of acquireLock: withRetry threw
acquireLockCatch(t) ==
  LET w == WakeNext(lk[t].path, locks, lockQueue, lk) IN
  /\ locks' = w.locks
  /\ lockQueue' = w.lockQueue
  /\ lk' = [w.lk EXCEPT ![t].pc = "failed"]
  /\ UNCHANGED fs

\* (mutant) the creation of the marker file retried without bound
CreateLockFileForever(t) ==
  /\ lk[t].pc = "creating"
  /\ LET lockFile == LockFile(FileOf(lk[t].path)) IN
     IF fs[lockFile] = Absent
     THEN /\ fs' = [fs EXCEPT ![lockFile] = LockId(t)]
          /\ lk' = [lk EXCEPT ![t].pc = "holding"]
          /\ UNCHANGED <<locks, lockQueue>>
     ELSE UNCHANGED <<fs, lockVars>>
  /\ UNCHANGED <<ao, envVars>>

\* one attempt of fs.writeFile(lockFile, lockId, {flag: 'wx'}) under withRetry
CreateLockFile(t) ==
  /\ lk[t].pc = "creating"
  /\ LET lockFile == LockFile(FileOf(lk[t].path))
         result == IF fs[lockFile] = Absent THEN "ok" ELSE "EEXIST"
         next == withRetry(lk[t].i, LockMaxRetries, result)
     IN CASE next = "return" ->
               /\ fs' = [fs EXCEPT ![lockFile] = LockId(t)]
               /\ lk' = [lk EXCEPT ![t].pc = "holding"]
               /\ UNCHANGED <<locks, lockQueue>>
          [] next = "retry" ->
               /\ lk' = [lk EXCEPT ![t].i = @ + 1]
               /\ UNCHANGED <<fs, locks, lockQueue>>
          [] OTHER -> acquireLockCatch(t)
  /\ UNCHANGED <<ao, envVars>>

\* the release handle is invoked: fs.unlink(lockFile) is issued
release(t) ==
  /\ lk[t].pc = "holding"
  /\ lk' = [lk EXCEPT ![t].pc = "unlinking"]
  /\ UNCHANGED <<locks, lockQueue>>

\* fs.unlink(lockFile) completes, and the finally block of the handle runs
ReleaseFinally(t) ==
  /\ lk[t].pc = "unlinking"
  /\ fs' = [fs EXCEPT ![LockFile(FileOf(lk[t].path))] = Absent]
  /\ LET w == WakeNext(lk[t].path, locks, lockQueue, lk) IN
       /\ locks' = w.locks
       /\ lockQueue' = w.lockQueue
       /\ lk' = [w.lk EXCEPT ![t].pc = "released"]
  /\ ao' = AfterUnlock(ao, t)
  /\ UNCHANGED envVars

\* Another process takes or drops the advisory marker file of a path.
ExternalLock(path) ==
  /\ fs[LockFile(path)] = Absent
  /\ fs' = [fs EXCEPT ![LockFile(path)] = Foreign]
  /\ UNCHANGED <<lockVars, ao, envVars>>

ExternalUnlock(path) ==
  /\ fs[LockFile(path)] = Foreign
  /\ fs' = [fs EXCEPT ![LockFile(path)] = Absent]
  /\ UNCHANGED <<lockVars, ao, envVars>>

\* task t is a holder of path: acquireLock returned to it and it has not yet
\* invoked the release handle
Holder(t, path) == lk[t].pc = "holding" /\ lk[t].path = path

\* ------------------------------------------- callers of acquireLock alone
RECURSIVE SumCalls(_)
SumCalls(S) == IF S = {} THEN 0 ELSE LET t == CHOOSE x \in S : TRUE IN lk[t].n + SumCalls(S \ {t})

CanCall(t) ==
  /\ lk[t].pc \in {"idle", "timedout", "failed", "released"}
  /\ SumCalls(Tasks) < MaxCalls

AcquireCall(t, path) == CanCall(t) /\ acquireLock(t, path) /\ UNCHANGED <<fs, ao, envVars>>

ReleaseCall(t) == release(t) /\ UNCHANGED <<fs, ao, envVars>>

Init ==
  /\ fs = [p \in AllPaths |-> Absent]
  /\ locks = {}
  /\ lockQueue = [p \in LockKeys |-> <<>>]
  /\ lk = [t \in Tasks |-> IdleLock]
  /\ ao = [t \in Tasks |-> IdleOp]
  /\ faults = 0
  /\ win32 = FALSE
  /\ pre = fs
  /\ pf = PfOff
  /\ tx = [t \in Tasks |-> TxOff]
  /\ fl = [t \in Tasks |-> FlOff]
  /\ had = [t \in Tasks |-> [p \in Targets |-> "?"]]

LockStep(t) == LockTimeout(t) \/ CreateLockFile(t) \/ ReleaseFinally(t)

Next ==
  \/ \E t \in Tasks, p \in Targets : AcquireCall(t, p)
  \/ \E t \in Tasks : ReleaseCall(t)
  \/ \E t \in Tasks : LockStep(t)
  \/ \E p \in Targets : ExternalLock(p) \/ ExternalUnlock(p)

Spec == Init /\ [][Next]_vars

\* callers that name one file by two strings
AliasFile == "A.txt"

NextAlias ==
  \/ \E t \in Tasks, p \in {AliasFile, Alias(AliasFile)} : AcquireCall(t, p)
  \/ \E t \in Tasks : ReleaseCall(t)
  \/ \E t \in Tasks : LockStep(t)
  \/ ExternalLock(AliasFile) \/ ExternalUnlock(AliasFile)

SpecAlias == Init /\ [][NextAlias]_vars

\* ------------------------------------------------ callers of withRetry alone
InitRetry ==
  /\ fs = [p \in AllPaths |-> Absent]
  /\ locks = {}
  /\ lockQueue = [p \in LockKeys |-> <<>>]
  /\ lk = [t \in Tasks |-> IdleLock]
  /\ ao = [t \in Tasks |-> IdleOp]
  /\ faults = 0
  /\ win32 = FALSE
  /\ pre = fs
  /\ pf \in {[fn |-> "withRetry", pc |-> "invoke", maxRetries |-> m, i |-> 0,
               outs |-> <<>>, waits |-> <<>>] : m \in 0..MaxRetriesArg}
  /\ tx = [t \in Tasks |-> TxOff]
  /\ fl = [t \in Tasks |-> FlOff]
  /\ had = [t \in Tasks |-> [p \in Targets |-> "?"]]

NextRetry == Operation \/ Backoff

SpecRetry == InitRetry /\ [][NextRetry]_vars

\* ------------------------------------------------------ claims on withRetry
Calls == Len(pf.outs)
Last == pf.outs[Calls]
AllTransient == \A j \in 1..Calls : pf.outs[j] \in Errors \ Permanent

\* C14: a permanent error ends withRetry at once: the operation is not
\* invoked again and no delay is waited for it, so that a call whose first
\* failure is permanent has invoked the operation once and waited never.
C14_PermanentAbortsWithoutWait ==
  (pf.pc = "threw" /\ Last \in Permanent) =>
     /\ \A j \in 1..(Calls - 1) : pf.outs[j] \notin Permanent
     /\ Len(pf.waits) = Calls - 1

\* C15 as claimed: the operation is invoked at most maxRetries times, and
\* exactly maxRetries times when it always fails with a transient error.
C15_AtMostMaxRetriesCalls ==
  /\ Calls <= pf.maxRetries
  /\ (pf.pc = "threw" /\ AllTransient) => Calls = pf.maxRetries

\* C15 amended: at most maxRetries + 1 times (the first attempt and
\* maxRetries retries), and exactly that many when it always fails with a
\* transient error.
C15_AtMostMaxRetriesPlusOneCalls ==
  /\ Calls <= pf.maxRetries + 1
  /\ (pf.pc = "threw" /\ AllTransient) => Calls = pf.maxRetries + 1

\* a call with more retries than RETRY_DELAYS has entries has thrown after
\* transient errors only
C15_Witness ==
  /\ pf.fn = "withRetry" /\ pf.pc = "threw" /\ AllTransient
  /\ pf.maxRetries > Len(RETRY_DELAYS)

\* C16: after k transient failures, k no more than maxRetries, the operation
\* is invoked again; its first success makes withRetry return, after k + 1
\* invocations, and it is not invoked after that.
C16_ReturnsAtFirstSuccess ==
  /\ (AllTransient /\ Calls <= pf.maxRetries) => pf.pc \in {"invoke", "delay"}
  /\ \A j \in 1..(Calls - 1) : pf.outs[j] # "ok"
  /\ (Calls > 0 /\ Last = "ok") <=> pf.pc = "returned"

\* a call has returned at the last attempt it had, after maxRetries failures
C16_Witness ==
  /\ pf.fn = "withRetry" /\ pf.pc = "returned"
  /\ Calls = pf.maxRetries + 1 /\ pf.maxRetries >= 2

\* ------------------------------------- atomicWrite, atomicCopy, atomicMove
\* The outcomes of a filesystem call that can fail for reasons of its own:
\* success, a transient error, or a permanent one.
Outcomes == IF faults < MaxFaults THEN {"ok", "EIO", "ENOENT"} ELSE {"ok"}
Charge(result) == faults' = IF result = "ok" THEN faults ELSE faults + 1

\* atomicWrite(targetPath, content) is called: mkdir(dir) is issued
atomicWrite(A, t, targetPath, content) ==
  [A EXCEPT ![t] = [pc |-> "mkdir", op |-> "write", src |-> "", dst |-> targetPath,
                    content |-> content, i |-> 0, ok |-> FALSE, rm |-> FALSE, unlocks |-> 0, tempErr |-> FALSE]]

\* atomicCopy(sourcePath, targetPath) is called: mkdir(dir) is issued
atomicCopy(A, t, sourcePath, targetPath) ==
  [A EXCEPT ![t] = [pc |-> "mkdir", op |-> "copy", src |-> sourcePath, dst |-> targetPath,
                    content |-> "", i |-> 0, ok |-> FALSE, rm |-> FALSE, unlocks |-> 0, tempErr |-> FALSE]]

\* atomicMove(sourcePath, targetPath) is called: mkdir(targetDir) is issued
atomicMove(A, t, sourcePath, targetPath) ==
  [A EXCEPT ![t] = [pc |-> "mkdir", op |-> "move", src |-> sourcePath, dst |-> targetPath,
                    content |-> "", i |-> 0, ok |-> FALSE, rm |-> FALSE, unlocks |-> 0, tempErr |-> FALSE]]

\* mkdir (and, in atomicMove, the two stat calls) is done.  atomicMove on
\* two devices becomes atomicCopy followed by fs.rm(sourcePath); every other
\* call goes on to acquireLock(targetPath).
Mkdir(t) ==
  /\ ao[t].pc = "mkdir"
  /\ \E sameDev \in BOOLEAN :
       ao' = [ao EXCEPT ![t].pc = "locking",
                        ![t].op = IF ao[t].op = "move" /\ ~sameDev THEN "copy" ELSE @,
                        ![t].rm = ao[t].op = "move" /\ ~sameDev]
  /\ acquireLock(t, ao[t].dst)
  /\ UNCHANGED <<fs, envVars>>

\* acquireLock threw (timeout, or the marker file could not be created):
\* the call throws before its try block, nothing was written
LockRefused(t) ==
  /\ ao[t].pc = "locking"
  /\ lk[t].pc \in {"timedout", "failed"}
  /\ ao' = [ao EXCEPT ![t].pc = "threw"]
  /\ UNCHANGED <<fs, lockVars, envVars>>

\* What a path may hold besides a regular file: an empty directory, a
\* directory with the previous tree in it, a directory holding the tree of
\* the source.
EmptyDir == "<dir: empty>"
OldDir == "<dir: old tree>"
SourceDir == "<dir: source tree>"
SourceFile == "source bytes"
IsDirectory(v) == v \in {EmptyDir, OldDir, SourceDir}

\* the outcome of fs.rename(from, to) as rename(2) decides it from what the
\* two paths hold: a file replaces a file, a directory replaces an empty
\* directory, everything moves onto a missing path, and nothing else is done
rename(from, to) ==
  CASE from = Absent -> "ENOENT"
    [] to = Absent -> "ok"
    [] ~IsDirectory(from) /\ IsDirectory(to) -> "EISDIR"
    [] IsDirectory(from) /\ ~IsDirectory(to) -> "ENOTDIR"
    [] IsDirectory(from) /\ to # EmptyDir -> "ENOTEMPTY"
    [] OTHER -> "ok"

\* the pc at which the replacement of the target starts: on win32 the target
\* is removed first
ReplacePc == IF win32 THEN "unlinkTarget" ELSE "rename"

\* (mutant) the rename is issued without awaiting the write of the temp file
BeginNoAwait(t) ==
  /\ \/ ao[t].pc = "locking" /\ lk[t].pc = "holding"
     \/ ao[t].pc = "retry"
  /\ LET tempPath == TempPath(t, ao[t].dst) IN
     CASE ao[t].op = "write" ->
            /\ fs' = [fs EXCEPT ![tempPath] = Partial]
            /\ ao' = [ao EXCEPT ![t].pc = ReplacePc]
       [] ao[t].op = "copy" /\ fs[ao[t].src] # Absent ->
            /\ fs' = [fs EXCEPT ![tempPath] = Partial]
            /\ ao' = [ao EXCEPT ![t].pc = ReplacePc]
       [] ao[t].op = "copy" /\ fs[ao[t].src] = Absent ->
            /\ ao' = [ao EXCEPT ![t].pc = "cleanup"]
            /\ UNCHANGED fs
       [] OTHER ->
            /\ ao' = [ao EXCEPT ![t].pc = ReplacePc]
            /\ UNCHANGED fs
  /\ UNCHANGED <<lockVars, envVars>>

\* The operation passed to withRetry starts (first attempt, or again after a
\* backoff).  atomicWrite: fs.writeFile(tempPath) creates the temp file and
\* starts filling it.  atomicCopy: fs.stat(sourcePath), which is ENOENT (a
\* permanent code) for a missing source, then fs.copyFile to the temp file.
\* atomicMove: the rename itself is issued.
Begin(t) ==
  /\ \/ ao[t].pc = "locking" /\ lk[t].pc = "holding"
     \/ ao[t].pc = "retry"
  /\ LET tempPath == TempPath(t, ao[t].dst) IN
     CASE ao[t].op = "write" ->
            /\ fs' = [fs EXCEPT ![tempPath] = Partial]
            /\ ao' = [ao EXCEPT ![t].pc = "temp"]
       [] ao[t].op = "copy" /\ fs[ao[t].src] # Absent ->
            /\ fs' = [fs EXCEPT ![tempPath] = Partial]
            /\ ao' = [ao EXCEPT ![t].pc = "temp"]
       [] ao[t].op = "copy" /\ fs[ao[t].src] = Absent ->
            /\ ao' = [ao EXCEPT ![t].pc = "cleanup"]
            /\ UNCHANGED fs
       [] OTHER ->
            /\ ao' = [ao EXCEPT ![t].pc = ReplacePc]
            /\ UNCHANGED fs
  /\ UNCHANGED <<lockVars, envVars>>

\* the catch of withRetry's loop after attempt i of the guarded operation
Retry(A, t, result) ==
  IF withRetry(A[t].i, DefaultMaxRetries, result) = "retry"
  THEN [A EXCEPT ![t].pc = "retry", ![t].i = @ + 1]
  ELSE IF A[t].op = "move" THEN [A EXCEPT ![t].pc = "unlock", ![t].unlocks = @ + 1]
  ELSE [A EXCEPT ![t].pc = "cleanup"]

\* fs.writeFile / fs.copyFile to the temp file ends
TempEnd(t) ==
  /\ ao[t].pc = "temp"
  /\ LET tempPath == TempPath(t, ao[t].dst)
         bytes == IF ao[t].op = "write" THEN ao[t].content ELSE fs[ao[t].src]
     IN \E result \in Outcomes :
          /\ Charge(result)
          /\ IF result = "ok" /\ bytes # Absent
             THEN /\ fs' = [fs EXCEPT ![tempPath] = bytes]
                  /\ ao' = [ao EXCEPT ![t].pc = ReplacePc]
             ELSE /\ ao' = Retry(ao, t, IF result = "ok" THEN "ENOENT" ELSE result)
                  /\ UNCHANGED fs
  /\ UNCHANGED <<lockVars, had, rest>>

\* win32 only: fs.unlink(targetPath) (atomicWrite; it fails on a directory)
\* or fs.rm(targetPath, recursive) before the rename, its failure ignored
UnlinkTarget(t) ==
  /\ ao[t].pc = "unlinkTarget"
  /\ fs' = IF ao[t].op = "write" /\ IsDirectory(fs[ao[t].dst])
           THEN fs
           ELSE [fs EXCEPT ![ao[t].dst] = Absent]
  /\ ao' = [ao EXCEPT ![t].pc = "rename"]
  /\ had' = Note(t, ao[t].dst)
  /\ UNCHANGED <<lockVars, faults, rest>>

\* fs.rename onto the target ends: of the temp file (atomicWrite, atomicCopy)
\* or of the source itself (atomicMove on one device).  atomicMove has no
\* temp file to remove and goes straight on to unlock().
Rename(t) ==
  /\ ao[t].pc = "rename"
  /\ LET from == IF ao[t].op = "move" THEN ao[t].src ELSE TempPath(t, ao[t].dst) IN
     \E fault \in Outcomes :
       LET result == IF fault = "ok" THEN rename(fs[from], fs[ao[t].dst]) ELSE fault IN
       /\ Charge(fault)
       /\ IF result = "ok"
          THEN /\ fs' = [fs EXCEPT ![ao[t].dst] = fs[from], ![from] = Absent]
               /\ ao' = [ao EXCEPT ![t].pc = IF ao[t].op = "move" THEN "unlock" ELSE "cleanup",
                                   ![t].ok = TRUE,
                                   ![t].unlocks = IF ao[t].op = "move" THEN @ + 1 ELSE @]
               /\ IF ao[t].op = "move" THEN release(t) ELSE UNCHANGED lockVars
               /\ had' = Note(t, ao[t].dst)
          ELSE LET A == Retry(ao, t, result) IN
               /\ ao' = A
               /\ UNCHANGED fs
               /\ IF A[t].pc = "unlock" THEN release(t) ELSE UNCHANGED lockVars
               /\ UNCHANGED had
  /\ UNCHANGED rest

\* (mutant) unlock() called after the guarded work instead of in a finally
\* block: it is skipped when the work threw
CleanupUnlockOnSuccess(t) ==
  /\ ao[t].pc = "cleanup"
  /\ fs' = [fs EXCEPT ![TempPath(t, ao[t].dst)] = Absent]
  /\ IF ao[t].ok
     THEN /\ ao' = [ao EXCEPT ![t].pc = "unlock", ![t].unlocks = @ + 1]
          /\ release(t)
     ELSE /\ ao' = [ao EXCEPT ![t].pc = "threw"]
          /\ UNCHANGED lockVars
  /\ UNCHANGED envVars

\* (mutant) a finally block that does not remove the temp file
CleanupKeepsTemp(t) ==
  /\ ao[t].pc = "cleanup"
  /\ ao' = [ao EXCEPT ![t].pc = "unlock", ![t].unlocks = @ + 1]
  /\ release(t)
  /\ UNCHANGED <<fs, envVars>>

\* the outcomes of the removal of the temp file at path: done, nothing to
\* remove, or failed (the file is busy or protected); the .catch(() => {})
\* swallows both failures
UnlinkOutcomes(path) == IF fs[path] = Absent THEN {"ENOENT"} ELSE {"ok", "EPERM"}

\* the finally block: fs.unlink(tempPath) / fs.rm(tempPath) ends, its failure
\* ignored, and unlock() is invoked
Cleanup(t) ==
  /\ ao[t].pc = "cleanup"
  /\ \E result \in UnlinkOutcomes(TempPath(t, ao[t].dst)) :
       /\ fs' = IF result = "ok" THEN [fs EXCEPT ![TempPath(t, ao[t].dst)] = Absent] ELSE fs
       /\ ao' = [ao EXCEPT ![t].pc = "unlock", ![t].unlocks = @ + 1,
                           ![t].tempErr = result = "EPERM"]
  /\ release(t)
  /\ UNCHANGED envVars

\* atomicMove on two devices, after atomicCopy returned: fs.rm(sourcePath)
RmSource(t) ==
  /\ ao[t].pc = "rmsrc"
  /\ fs' = [fs EXCEPT ![ao[t].src] = Absent]
  /\ ao' = [ao EXCEPT ![t].pc = "returned"]
  /\ UNCHANGED <<lockVars, envVars>>

\* the turns of atomicWrite and atomicCopy
AtomicStep(t) ==
  \/ Mkdir(t) \/ LockRefused(t) \/ Begin(t) \/ TempEnd(t)
  \/ UnlinkTarget(t) \/ Rename(t) \/ Cleanup(t)

\* ---------------------------------------------- callers of atomicWrite alone
Writers == 1..NumWriters

WriteCall(t, targetPath) ==
  /\ ao[t].pc = "idle"
  /\ ao' = atomicWrite(ao, t, targetPath, ContentOf(t))
  /\ UNCHANGED <<fs, lockVars, envVars>>

\* the disks on which each target is missing or holds old content
Disks ==
  {[p \in AllPaths |-> IF p \in Targets THEN d[p] ELSE Absent] :
     d \in [Targets -> {Absent, Old}]}

InitWrite ==
  /\ fs \in Disks
  /\ locks = {}
  /\ lockQueue = [p \in LockKeys |-> <<>>]
  /\ lk = [t \in Tasks |-> IdleLock]
  /\ ao = [t \in Tasks |-> IdleOp]
  /\ faults = 0
  /\ win32 \in BOOLEAN
  /\ pre = fs
  /\ pf = PfOff
  /\ tx = [t \in Tasks |-> TxOff]
  /\ fl = [t \in Tasks |-> FlOff]
  /\ had = [t \in Tasks |-> [p \in Targets |-> "?"]]

NextWrite ==
  \/ \E t \in Writers, p \in Targets : WriteCall(t, p)
  \/ \E t \in Writers : AtomicStep(t)
  \/ \E t \in Writers : LockStep(t)
  \/ \E p \in Targets : ExternalLock(p) \/ ExternalUnlock(p)

SpecWrite == InitWrite /\ [][NextWrite]_vars

\* ------------------- callers of atomicWrite, atomicCopy and atomicMove alone
OpCall(t) ==
  /\ ao[t].pc = "idle"
  /\ \E op \in {"write", "copy", "move"}, sourcePath \in Targets, targetPath \in Targets :
       /\ sourcePath # targetPath
       /\ ao' = CASE op = "write" -> atomicWrite(ao, t, targetPath, ContentOf(t))
                  [] op = "copy" -> atomicCopy(ao, t, sourcePath, targetPath)
                  [] OTHER -> atomicMove(ao, t, sourcePath, targetPath)
  /\ UNCHANGED <<fs, lockVars, envVars>>

NextOps ==
  \/ \E t \in Writers : OpCall(t)
  \/ \E t \in Writers : AtomicStep(t) \/ RmSource(t)
  \/ \E t \in Writers : LockStep(t)
  \/ \E p \in Targets : ExternalLock(p) \/ ExternalUnlock(p)

SpecOps == InitWrite /\ [][NextOps]_vars

\* Every filesystem call returns and every timer fires: a call that can take
\* a turn takes it.
FairOps == \A t \in Writers : WF_vars(AtomicStep(t) \/ RmSource(t) \/ LockStep(t))

\* the three operations called on one destination, so that the callers meet
\* at its lock
LiveSource == "B.txt"
LiveDest == "A.txt"

LiveCall(t) ==
  /\ ao[t].pc = "idle"
  /\ \E op \in {"write", "copy", "move"} :
       ao' = CASE op = "write" -> atomicWrite(ao, t, LiveDest, ContentOf(t))
               [] op = "copy" -> atomicCopy(ao, t, LiveSource, LiveDest)
               [] OTHER -> atomicMove(ao, t, LiveSource, LiveDest)
  /\ UNCHANGED <<fs, lockVars, envVars>>

NextLive ==
  \/ \E t \in Writers : LiveCall(t)
  \/ \E t \in Writers : AtomicStep(t) \/ RmSource(t)
  \/ \E t \in Writers : LockStep(t)
  \/ ExternalLock(LiveDest) \/ ExternalUnlock(LiveDest)

SpecLive == InitWrite /\ [][NextLive]_vars /\ FairOps

\* ------------------------------------------------ callers of atomicCopy alone
\* atomicCopy(CopySource, CopyDest), the source a file or a directory, the
\* destination missing, a file, an empty directory or a directory with a tree
CopySource == "A.txt"
CopyDest == "B.txt"

CopyDisks ==
  {[p \in AllPaths |-> IF p = CopySource THEN s ELSE IF p = CopyDest THEN d ELSE Absent] :
     s \in {SourceFile, SourceDir}, d \in {Absent, Old, EmptyDir, OldDir}}

InitCopy ==
  /\ fs \in CopyDisks
  /\ locks = {}
  /\ lockQueue = [p \in LockKeys |-> <<>>]
  /\ lk = [t \in Tasks |-> IdleLock]
  /\ ao = [t \in Tasks |-> IdleOp]
  /\ faults = 0
  /\ win32 \in BOOLEAN
  /\ pre = fs
  /\ pf = PfOff
  /\ tx = [t \in Tasks |-> TxOff]
  /\ fl = [t \in Tasks |-> FlOff]
  /\ had = [t \in Tasks |-> [p \in Targets |-> "?"]]

CopyCall(t) ==
  /\ ao[t].pc = "idle"
  /\ ao' = atomicCopy(ao, t, CopySource, CopyDest)
  /\ UNCHANGED <<fs, lockVars, envVars>>

NextCopy ==
  \/ \E t \in Writers : CopyCall(t)
  \/ \E t \in Writers : AtomicStep(t)
  \/ \E t \in Writers : LockStep(t)
  \/ ExternalLock(CopyDest) \/ ExternalUnlock(CopyDest)

SpecCopy == InitCopy /\ [][NextCopy]_vars

\* ------------------------------ claims on atomicWrite / atomicCopy / atomicMove
\* the call of task t has ended: returned or thrown (a move over two devices
\* has ended its atomicCopy and goes on to remove the source)
Ended(t) == ao[t].pc \in {"returned", "threw", "rmsrc"}
Acquired(t) == lk[t].pc \notin {"idle", "waiting", "creating", "timedout", "failed"}

\* C11: a call that acquired the lock has invoked the release handle exactly
\* once by the time it returns or throws, and then no longer holds the path;
\* no call invokes it more than once.
C11_ReleasedExactlyOnce ==
  \A t \in Tasks :
    /\ ao[t].unlocks <= 1
    /\ (Ended(t) /\ Acquired(t)) =>
         /\ ao[t].unlocks = 1
         /\ lk[t].pc = "released"
         /\ ~Holder(t, ao[t].dst)

\* calls that acquired the lock have ended: a write that threw, a move that
\* threw, and a copy that returned are among them
C11_Witness ==
  \E t, u \in Writers :
    /\ t # u /\ Acquired(t) /\ Acquired(u)
    /\ ao[t].pc = "threw" /\ ao[t].op \in {"write", "move"}
    /\ ao[u].pc = "returned" /\ ao[u].dst = ao[t].dst

\* C12 as claimed: once atomicWrite or atomicCopy has returned or thrown, the
\* temp file of the call does not exist.
C12_NoTempAfterCall ==
  \A t \in Tasks :
    (Ended(t) /\ ao[t].op \in {"write", "copy"}) => fs[TempPath(t, ao[t].dst)] = Absent

\* C12 amended: the same, unless the removal of the temp file in the finally
\* block itself failed; that failure is ignored and the file stays.
C12_NoTempUnlessRemovalFailed ==
  \A t \in Tasks :
    (Ended(t) /\ ao[t].op \in {"write", "copy"} /\ ~ao[t].tempErr)
      => fs[TempPath(t, ao[t].dst)] = Absent

\* an atomicWrite that held the lock and wrote its temp file has thrown, and
\* an atomicCopy has returned; the temp files of both are gone
C12_Witness ==
  \E t, u \in Writers :
    /\ ao[t].pc = "threw" /\ ao[t].op = "write" /\ Acquired(t) /\ ~ao[t].tempErr
    /\ fs[TempPath(t, ao[t].dst)] = Absent
    /\ ao[u].pc = "returned" /\ ao[u].op = "copy" /\ ~ao[u].rm
    /\ fs[TempPath(u, ao[u].dst)] = Absent

\* C17: the destination of atomicCopy holds at every moment what it held
\* before or what the source holds, and a call that got the lock and met no
\* I/O fault returns with the destination holding the content of the source,
\* whether the destination was missing, a file or a directory with a tree.
C17_CopyReplacesDest ==
  /\ fs[CopyDest] \in {pre[CopyDest], pre[CopySource]}
  /\ \A t \in Writers :
       (Ended(t) /\ ao[t].op = "copy" /\ Acquired(t) /\ faults = 0)
         => /\ ao[t].pc = "returned"
            /\ fs[CopyDest] = pre[CopySource]

\* C29: when atomicWrite or atomicCopy, called with nothing else running,
\* has thrown, its target holds what it held before the call (and is missing
\* if it was missing), on the rename path and on the delete-then-rename path.
C29_FailureLeavesTarget ==
  \A t \in Writers :
    (/\ ao[t].pc = "threw" /\ ao[t].op \in {"write", "copy"} /\ ~ao[t].rm
     /\ \A u \in Tasks \ {t} : ao[u].pc = "idle")
      => fs[ao[t].dst] = pre[ao[t].dst]

\* the call of task t is an atomicMove, on one device or on two
IsMove(t) == ao[t].op = "move" \/ ao[t].rm

\* C31: during and after an atomicMove(source, dest) of an existing source,
\* called with nothing else running, the content of the source is at source
\* or at dest, and when atomicMove has thrown it is still at source.
C31_MovedContentNeverLost ==
  \A t \in Writers :
    (/\ IsMove(t) /\ pre[ao[t].src] # Absent
     /\ \A u \in Tasks \ {t} : ao[u].pc = "idle")
      => /\ fs[ao[t].src] = pre[ao[t].src] \/ fs[ao[t].dst] = pre[ao[t].src]
         /\ ao[t].pc = "threw" => fs[ao[t].src] = pre[ao[t].src]

\* a move over two devices has returned: the content is at dest and the
\* source is removed
C31_Witness ==
  \E t \in Writers :
    /\ ao[t].rm /\ ao[t].pc = "returned" /\ \A u \in Tasks \ {t} : ao[u].pc = "idle"
    /\ fs[ao[t].src] = Absent /\ fs[ao[t].dst] = pre[ao[t].src]
    /\ pre[ao[t].dst] # Absent

\* -------------------------------------------------- claims on atomicWrite
Written == {ContentOf(t) : t \in Writers}
Returned(t, p) == ao[t].pc = "returned" /\ ao[t].dst = p

\* C3 as claimed: a reader of P sees P's previous state or exactly what one
\* of the concurrent atomicWrite calls wrote, and after all of them returned
\* P holds what one of them wrote.
C3_PreviousOrWritten ==
  \A p \in Targets :
    /\ fs[p] \in {pre[p]} \cup Written
    /\ (\A t \in Writers : Returned(t, p)) => fs[p] \in Written

\* C3 amended: the same, except that on win32, where the target is removed
\* before the rename, a reader may also find no file at P for a moment.
C3_PreviousOrWrittenOrAbsentOnWin32 ==
  \A p \in Targets :
    /\ fs[p] \in {pre[p]} \cup Written \cup (IF win32 THEN {Absent} ELSE {})
    /\ (\A t \in Writers : Returned(t, p)) => fs[p] \in Written

\* every writer has returned from atomicWrite on one path that had content
C3_Witness ==
  \E p \in Targets : pre[p] = Old /\ \A t \in Writers : Returned(t, p)

\* C4: when atomicWrite(P, C) returns, P holds exactly C and the temp file
\* of the call is gone.
C4_ReturnsWithContent ==
  [][\A t \in Tasks :
       (ao[t].op = "write" /\ ao[t].pc # "returned" /\ ao'[t].pc = "returned")
         => /\ fs'[ao[t].dst] = ao[t].content
            /\ fs'[TempPath(t, ao[t].dst)] = Absent]_vars

\* a writer returned after a retry, on a path another writer also wrote
C4_Witness ==
  \E t, u \in Writers :
    /\ t # u /\ ao[t].dst = ao[u].dst
    /\ ao[t].pc = "returned" /\ ao[t].i > 0 /\ fs[ao[t].dst] = ao[t].content
    /\ ao[u].pc = "returned"

\* ---------------------------------------------------------- TransactionLog
\* The records of tx: pc is the position of the transaction, kind / src /
\* path / content the write or copy call in progress, n the calls made, nb
\* the backups taken, ops this.operations, k the index of the rollback loop,
\* threw whether a write or copy call threw, rbErr whether a rollback step
\* failed, log the records in the order they were pushed, rbs the number of
\* rollback() calls, ended whether commit() or a rollback() has returned.
Reverse(ops) == [j \in 1..Len(ops) |-> ops[Len(ops) + 1 - j]]

\* the atomic mutation of write(path, content) / copy(source, target)
Mutate(A, t, T) ==
  IF T.kind = "write"
  THEN atomicWrite(A, t, T.path, T.content)
  ELSE atomicCopy(A, t, T.src, T.path)

\* write(path, content) is called: backup(path) issues fs.access(path)
write(T, t, path, content) ==
  [T EXCEPT ![t].pc = "access", ![t].kind = "write", ![t].path = path, ![t].src = "",
            ![t].content = content, ![t].n = @ + 1]

\* copy(source, target) is called: backup(target) issues fs.access(target)
copy(T, t, source, target) ==
  [T EXCEPT ![t].pc = "access", ![t].kind = "copy", ![t].path = target, ![t].src = source,
            ![t].content = "", ![t].n = @ + 1]

\* the operations called so far on the transactions of the tasks in S
RECURSIVE SumOps(_)
SumOps(S) == IF S = {} THEN 0 ELSE LET t == CHOOSE x \in S : TRUE IN tx[t].n + SumOps(S \ {t})

\* a caller calls write or copy on the transaction of task t
TxOp(t) ==
  /\ tx[t].pc \in {"ready", "opReturned"}
  /\ SumOps(Tasks) < MaxOps
  /\ \E kind \in {"write", "copy"}, path \in Targets, source \in Targets :
       /\ kind = "copy" => source # path
       /\ tx' = IF kind = "write"
                THEN write(tx, t, path, TxContent(t, tx[t].n + 1))
                ELSE copy(tx, t, source, path)
  /\ UNCHANGED <<fs, lockVars, ao, faults, had, win32, pre, pf, fl>>

\* (mutant) write/copy that mutate the path without backing it up
AccessNoBackup(t) ==
  /\ tx[t].pc = "access"
  /\ tx' = [tx EXCEPT ![t].pc = "mutate"]
  /\ ao' = Mutate(ao, t, tx[t])
  /\ UNCHANGED <<fs, lockVars, faults, had, win32, pre, pf, fl>>

\* backup(path): fs.access(path) ends.  A missing path is not backed up and
\* the mutation is called at once; an existing one is first copied to a
\* fresh name under the backup root.
Access(t) ==
  /\ tx[t].pc = "access"
  /\ IF fs[tx[t].path] = Absent
     THEN /\ tx' = [tx EXCEPT ![t].pc = "mutate"]
          /\ ao' = Mutate(ao, t, tx[t])
     ELSE /\ tx' = [tx EXCEPT ![t].pc = "backup", ![t].nb = @ + 1]
          /\ ao' = atomicCopy(ao, t, tx[t].path, BackupPath(t, tx[t].nb + 1))
  /\ UNCHANGED <<fs, lockVars, faults, had, win32, pre, pf, fl>>

\* backup(path): atomicCopy(path, backupPath) ended.  Returned: the Backup
\* record is pushed and the mutation is called.  Threw: write/copy throws.
BackupEnd(t) ==
  /\ tx[t].pc = "backup"
  /\ ao[t].pc \in {"returned", "threw"}
  /\ IF ao[t].pc = "returned"
     THEN /\ tx' = [tx EXCEPT ![t].pc = "mutate",
                              ![t].ops = Append(@, [type |-> "backup", path |-> tx[t].path,
                                                    backup |-> BackupPath(t, tx[t].nb)]),
                              ![t].log = Append(@, [type |-> "backup", path |-> tx[t].path,
                                                    backup |-> BackupPath(t, tx[t].nb)])]
          /\ ao' = Mutate(ao, t, tx[t])
     ELSE /\ tx' = [tx EXCEPT ![t].pc = "opThrew", ![t].threw = TRUE]
          /\ ao' = [ao EXCEPT ![t] = IdleOp]
  /\ UNCHANGED <<fs, lockVars, faults, had, win32, pre, pf, fl>>

\* write/copy: atomicWrite / atomicCopy ended.  Returned: the Write or Copy
\* record is pushed.  Threw: write/copy throws.
MutateEnd(t) ==
  /\ tx[t].pc = "mutate"
  /\ ao[t].pc \in {"returned", "threw"}
  /\ tx' = IF ao[t].pc = "returned"
           THEN [tx EXCEPT ![t].pc = "opReturned",
                           ![t].ops = Append(@, [type |-> tx[t].kind, path |-> tx[t].path,
                                                 backup |-> ""]),
                           ![t].log = Append(@, [type |-> tx[t].kind, path |-> tx[t].path,
                                                 backup |-> ""])]
           ELSE [tx EXCEPT ![t].pc = "opThrew", ![t].threw = TRUE]
  /\ ao' = [ao EXCEPT ![t] = IdleOp]
  /\ UNCHANGED <<fs, lockVars, faults, had, win32, pre, pf, fl>>

\* The loop of rollback() reaches record k of the (reversed) operations: a
\* Backup record calls atomicMove(op.backup, op.path), a Write or Copy record
\* issues fs.rm(op.path); past the last record rollback() returns.
RollbackAt(T, k) ==
  IF k > Len(T.ops) THEN [T EXCEPT !.pc = "rolledBack", !.k = k, !.ended = TRUE]
  ELSE IF T.ops[k].type = "backup" THEN [T EXCEPT !.pc = "rb_move", !.k = k]
  ELSE [T EXCEPT !.pc = "rb_rm", !.k = k]

RollbackCall(A, t, T) ==
  IF T.pc = "rb_move" THEN atomicMove(A, t, T.ops[T.k].backup, T.ops[T.k].path)
  ELSE [A EXCEPT ![t] = IdleOp]

\* (mutant) rollback() that walks the operations in the order they were pushed
rollbackInOrder(t) ==
  LET T == RollbackAt(tx[t], 1) IN
  /\ tx' = [tx EXCEPT ![t] = T]
  /\ ao' = RollbackCall(ao, t, T)

\* rollback() is called: this.operations.reverse() reverses the array in place
rollback(t) ==
  LET T == RollbackAt([tx[t] EXCEPT !.ops = Reverse(@), !.rbs = @ + 1], 1) IN
  /\ tx' = [tx EXCEPT ![t] = T]
  /\ ao' = RollbackCall(ao, t, T)

\* rollback(): fs.rm(op.path, {recursive, force}) of a Write or Copy record
\* ends, its failure swallowed
RbRm(t) ==
  /\ tx[t].pc = "rb_rm"
  /\ \E result \in Outcomes :
       /\ Charge(result)
       /\ fs' = IF result = "ok" THEN [fs EXCEPT ![tx[t].ops[tx[t].k].path] = Absent] ELSE fs
       /\ LET T == RollbackAt([tx[t] EXCEPT !.rbErr = @ \/ result # "ok",
                                             !.rbAt = IF result # "ok" THEN tx[t].k ELSE @],
                               tx[t].k + 1) IN
            /\ tx' = [tx EXCEPT ![t] = T]
            /\ ao' = RollbackCall(ao, t, T)
  /\ UNCHANGED <<lockVars, had, win32, pre, pf, fl>>

\* (mutant) a failed atomicMove ends rollback(): the remaining records are
\* left alone
RbMoveEndAborts(t) ==
  /\ tx[t].pc = "rb_move"
  /\ ao[t].pc \in {"returned", "threw"}
  /\ LET T == IF ao[t].pc = "threw"
              THEN [tx[t] EXCEPT !.pc = "rolledBack", !.rbErr = TRUE, !.rbAt = tx[t].k,
                                 !.ended = TRUE]
              ELSE RollbackAt(tx[t], tx[t].k + 1) IN
       /\ tx' = [tx EXCEPT ![t] = T]
       /\ ao' = RollbackCall(ao, t, T)
  /\ UNCHANGED <<fs, lockVars, faults, had, win32, pre, pf, fl>>

\* rollback(): atomicMove(op.backup, op.path) of a Backup record ended, its
\* failure logged and swallowed
RbMoveEnd(t) ==
  /\ tx[t].pc = "rb_move"
  /\ ao[t].pc \in {"returned", "threw"}
  /\ LET T == RollbackAt([tx[t] EXCEPT !.rbErr = @ \/ ao[t].pc = "threw",
                                        !.rbAt = IF ao[t].pc = "threw" THEN tx[t].k ELSE @],
                          tx[t].k + 1) IN
       /\ tx' = [tx EXCEPT ![t] = T]
       /\ ao' = RollbackCall(ao, t, T)
  /\ UNCHANGED <<fs, lockVars, faults, had, win32, pre, pf, fl>>

\* what lies under the backup root of the transaction of task t
UnderBackupDir(t) ==
  LET B == {BackupPath(t, k) : k \in 1..MaxOps} IN
  B \cup {LockFile(b) : b \in B} \cup {TempPath(u, b) : u \in Tasks, b \in B}

\* commit() is called: fs.rm(this.backupDir, {recursive, force}) is issued
commit(t) == tx' = [tx EXCEPT ![t].pc = "commit"]

\* commit(): fs.rm(this.backupDir) ends
CommitEnd(t) ==
  /\ tx[t].pc = "commit"
  /\ fs' = [p \in AllPaths |-> IF p \in UnderBackupDir(t) THEN Absent ELSE fs[p]]
  /\ tx' = [tx EXCEPT ![t].pc = "committed", ![t].ended = TRUE]
  /\ UNCHANGED <<lockVars, ao, faults, had, win32, pre, pf, fl>>

\* ------------------------------------------- callers of TransactionLog alone
\* A caller rolls back after a failed operation, and may roll back or commit
\* after any number of successful ones.
TxRollback(t) ==
  /\ tx[t].pc \in {"opReturned", "opThrew"}
  /\ rollback(t)
  /\ UNCHANGED <<fs, lockVars, faults, had, win32, pre, pf, fl>>

TxCommit(t) ==
  /\ tx[t].pc = "opReturned"
  /\ commit(t)
  /\ UNCHANGED <<fs, lockVars, ao, faults, had, win32, pre, pf, fl>>

TxStep(t) ==
  \/ TxOp(t) \/ Access(t) \/ BackupEnd(t) \/ MutateEnd(t)
  \/ TxRollback(t) \/ RbRm(t) \/ RbMoveEnd(t) \/ TxCommit(t) \/ CommitEnd(t)

TxReady == [TxOff EXCEPT !.pc = "ready"]

InitTx(S) ==
  /\ fs \in Disks
  /\ locks = {}
  /\ lockQueue = [p \in LockKeys |-> <<>>]
  /\ lk = [t \in Tasks |-> IdleLock]
  /\ ao = [t \in Tasks |-> IdleOp]
  /\ faults = 0
  /\ win32 \in BOOLEAN
  /\ pre = fs
  /\ pf = PfOff
  /\ tx = [t \in Tasks |-> IF t \in S THEN TxReady ELSE TxOff]
  /\ fl = [t \in Tasks |-> FlOff]
  /\ had = [t \in Tasks |-> [p \in Targets |-> "?"]]

\* one transaction running alone
NextTx ==
  \/ TxStep(1)
  \/ AtomicStep(1) \/ RmSource(1)
  \/ CreateLockFile(1) \/ ReleaseFinally(1)
  \/ \E p \in Targets : ExternalLock(p) \/ ExternalUnlock(p)

SpecTx == InitTx({1}) /\ [][NextTx]_vars

\* NumTx transactions running concurrently
NextTx2 ==
  \/ \E t \in 1..NumTx : TxStep(t)
  \/ \E t \in 1..NumTx : AtomicStep(t) \/ RmSource(t)
  \/ \E t \in 1..NumTx : LockStep(t)

SpecTx2 == InitTx(1..NumTx) /\ [][NextTx2]_vars

\* a caller that also calls rollback() on a transaction that has ended
TxRollbackAgain(t) ==
  /\ tx[t].pc \in {"rolledBack", "committed"}
  /\ tx[t].rbs < MaxRollbacks
  /\ rollback(t)
  /\ UNCHANGED <<fs, lockVars, faults, had, win32, pre, pf, fl>>

NextTxEnd == NextTx \/ TxRollbackAgain(1)

SpecTxEnd == InitTx({1}) /\ [][NextTxEnd]_vars

\* ------------------------------------------------- verifyBackup, getAllFiles
\* What fs.stat finds at a path: nothing, a regular file with its bytes, a
\* directory with its entries (name -> node), or an entry that is neither
\* (a symbolic link inside a tree).
None == [kind |-> "none"]
File(bytes) == [kind |-> "file", bytes |-> bytes]
Dir(entries) == [kind |-> "dir", entries |-> entries]
Link == [kind |-> "link"]

\* the node at a path of the disk, whose contents are whole files
NodeAt(path) == IF fs[path] = Absent THEN None ELSE File(fs[path])

\* the order in which fs.readdir lists names
NameOrder == <<"a", "b", "c">>

\* getAllFiles(dir): traverse(currentDir, prefix) from the k-th name on; the
\* relative paths of the regular files, directories descended into, anything
\* else skipped
RECURSIVE traverse(_, _, _)
traverse(currentDir, prefix, k) ==
  IF k > Len(NameOrder) THEN <<>>
  ELSE LET name == NameOrder[k]
           relativePath == IF prefix = "" THEN name ELSE prefix \o "/" \o name
           others == traverse(currentDir, prefix, k + 1)
       IN IF name \notin DOMAIN currentDir.entries THEN others
          ELSE LET entry == currentDir.entries[name] IN
               IF entry.kind = "dir" THEN traverse(entry, relativePath, 1) \o others
               ELSE IF entry.kind = "file" THEN <<relativePath>> \o others
               ELSE others

getAllFiles(dir) == traverse(dir, "", 1)

\* Array.prototype.includes
Includes(list, x) == \E k \in 1..Len(list) : list[k] = x

\* hashFile(path): the SHA-256 digest of the bytes, taken to be free of
\* collisions: the digest stands for the bytes it was computed from
hashFile(node) == <<"sha256", node.bytes>>

\* (mutant) a comparison of the number of files only
verifyBackupByCount(original, backup) ==
  IF original.kind = "none" THEN "throw"
  ELSE IF original.kind = "dir"
  THEN IF backup.kind # "dir" THEN "throw"
       ELSE IF Len(getAllFiles(original)) # Len(getAllFiles(backup)) THEN "throw"
       ELSE "return"
  ELSE IF backup.kind # "file" THEN "throw"
  ELSE IF hashFile(original) # hashFile(backup) THEN "throw"
  ELSE "return"

\* verifyBackup(originalPath, backupPath), given what is at the two paths:
\* fs.stat(originalPath) throws for a missing original; for a directory the
\* two lists of getAllFiles are compared (readdir of a backup that is no
\* directory throws); otherwise the two digests are (reading a backup that
\* is no file throws)
verifyBackup(original, backup) ==
  IF original.kind = "none" THEN "throw"
  ELSE IF original.kind = "dir"
  THEN IF backup.kind # "dir" THEN "throw"
       ELSE LET originalFiles == getAllFiles(original)
                backupFiles == getAllFiles(backup)
            IN IF \/ Len(originalFiles) # Len(backupFiles)
                  \/ ~\A k \in 1..Len(originalFiles) : Includes(backupFiles, originalFiles[k])
               THEN "throw"
               ELSE "return"
  ELSE IF backup.kind # "file" THEN "throw"
  ELSE IF hashFile(original) # hashFile(backup) THEN "throw"
  ELSE "return"

\* ---------------------------------------------- callers of verifyBackup alone
\* the files of up to MaxBytes bytes (bits, here)
Bytes == UNION {[1..n -> {0, 1}] : n \in 0..MaxBytes}
\* what a directory can hold: two one-byte files, a link, and one level down
\* the directories over the name "c"
Leaves == {File(<<0>>), File(<<1>>), Link}
InnerDirs == {Dir(e) : e \in UNION {[S -> Leaves] : S \in SUBSET {"c"}}}
TopDirs == {Dir(e) : e \in UNION {[S -> Leaves \cup InnerDirs] : S \in SUBSET {"a", "b"}}}
Roots == {None} \cup {File(b) : b \in Bytes} \cup TopDirs

InitVerify ==
  /\ fs = [p \in AllPaths |-> Absent]
  /\ locks = {}
  /\ lockQueue = [p \in LockKeys |-> <<>>]
  /\ lk = [t \in Tasks |-> IdleLock]
  /\ ao = [t \in Tasks |-> IdleOp]
  /\ faults = 0
  /\ win32 = FALSE
  /\ pre = fs
  /\ pf \in {[fn |-> "verifyBackup", pc |-> "called", original |-> o, backup |-> b,
              out |-> ""] : o \in Roots, b \in Roots}
  /\ tx = [t \in Tasks |-> TxOff]
  /\ fl = [t \in Tasks |-> FlOff]
  /\ had = [t \in Tasks |-> [p \in Targets |-> "?"]]

\* the call of verifyBackup ends
VerifyBackup ==
  /\ pf.fn = "verifyBackup" /\ pf.pc = "called"
  /\ pf' = [pf EXCEPT !.pc = "ended", !.out = verifyBackup(pf.original, pf.backup)]
  /\ UNCHANGED <<fs, lockVars, ao, faults, had, win32, pre, tx, fl>>

NextVerify == VerifyBackup

SpecVerify == InitVerify /\ [][NextVerify]_vars

\* ---------------------------------------------------- claims on verifyBackup
\* the set of the relative paths of the regular files under a directory
RECURSIVE FilePaths(_, _)
FilePaths(dir, prefix) ==
  UNION {LET entry == dir.entries[name]
             path == IF prefix = "" THEN name ELSE prefix \o "/" \o name
         IN IF entry.kind = "file" THEN {path}
            ELSE IF entry.kind = "dir" THEN FilePaths(entry, path)
            ELSE {} : name \in DOMAIN dir.entries}

\* C13: for two regular files verifyBackup succeeds exactly when their bytes
\* are the same, and for two directories exactly when the sets of relative
\* file paths under them are the same.
C13_VerifyFailsOnAnyDifference ==
  pf.fn = "verifyBackup" /\ pf.pc = "ended" =>
    /\ (pf.original.kind = "file" /\ pf.backup.kind = "file") =>
         (pf.out = "return" <=> pf.original.bytes = pf.backup.bytes)
    /\ (pf.original.kind = "dir" /\ pf.backup.kind = "dir") =>
         (pf.out = "return" <=> FilePaths(pf.original, "") = FilePaths(pf.backup, ""))

\* verifyBackup has failed for a tree {a, b/c} whose backup lacks b/c but
\* holds as many files
C13_Witness ==
  /\ pf.fn = "verifyBackup" /\ pf.pc = "ended" /\ pf.out = "throw"
  /\ pf.original.kind = "dir" /\ pf.backup.kind = "dir"
  /\ FilePaths(pf.original, "") = {"a", "b/c"}
  /\ FilePaths(pf.backup, "") = {"a", "b"}

\* ------------------------------- copyCodexDirectory, copyAdditionalFiles
\* The records of fl: pc is the position of the call, fn the function, n the
\* number of files to write, j the index of the loop over them, i the
\* attempt of withRetry in createBackupDir, checks the outcomes of the
\* verifyBackup calls made.  AGENTS.md is the path FilesTarget and its copy
\* under the backup directory of the project the path FilesBackup; the .codex
\* tree is the path CodexTarget and its copy the path CodexBackup.
FilesTarget == "A.txt"
FilesBackup == "B.txt"

\* targetDir / targetPath and backupPath of the call of task t
TargetOf(t) == IF fl[t].fn = "copyCodexDirectory" THEN CodexTarget ELSE FilesTarget
BackupOf(t) == IF fl[t].fn = "copyCodexDirectory" THEN CodexBackup ELSE FilesBackup

\* (mutant) a catch block that rethrows without rolling back
CatchWithoutRollback(t, F) ==
  /\ fl' = [F EXCEPT ![t].pc = "threw"]
  /\ UNCHANGED <<tx, ao>>

\* the catch block: tx.rollback() is called
Catch(t, F) ==
  /\ fl' = [F EXCEPT ![t].pc = "rollback"]
  /\ rollback(t)

\* The loop over the files reaches file j: fs.readFile(sourcePath) is issued,
\* or past the last file tx.commit() is called.
NextFile(t, j, F) ==
  IF j > fl[t].n
  THEN /\ fl' = [F EXCEPT ![t].pc = "commit", ![t].j = j]
       /\ commit(t)
       /\ UNCHANGED ao
  ELSE /\ fl' = [F EXCEPT ![t].pc = "readFile", ![t].j = j]
       /\ UNCHANGED <<tx, ao>>

\* (mutant) the existing target is not backed up before it is overwritten
ExistsNoBackup(t) ==
  /\ fl[t].pc = "exists"
  /\ NextFile(t, 1, fl)
  /\ UNCHANGED <<fs, lockVars, faults, had, win32, pre, pf>>

\* copyCodexDirectory is called: without a .codex tree in skel it returns at
\* once; otherwise a TransactionLog is made and tx.init() is issued
copyCodexDirectory(t) ==
  /\ fl[t].pc = "idle"
  /\ \E sourceExists \in BOOLEAN, n \in 0..MaxFiles :
       fl' = [fl EXCEPT ![t] = [pc |-> IF sourceExists THEN "init" ELSE "returned",
                                fn |-> "copyCodexDirectory",
                                n |-> IF sourceExists THEN n ELSE 0, j |-> 0, i |-> 0,
                                checks |-> <<>>, backupDir |-> ""]]
  /\ UNCHANGED <<fs, lockVars, ao, faults, had, win32, pre, pf, tx>>

\* copyAdditionalFiles is called: files = ['AGENTS.md']
copyAdditionalFiles(t) ==
  /\ fl[t].pc = "idle"
  /\ fl' = [fl EXCEPT ![t] = [pc |-> "init", fn |-> "copyAdditionalFiles",
                              n |-> 1, j |-> 0, i |-> 0, checks |-> <<>>, backupDir |-> ""]]
  /\ UNCHANGED <<fs, lockVars, ao, faults, had, win32, pre, pf, tx>>

\* tx.init() ends: fs.mkdir(this.backupDir).  It is awaited before the try
\* block: its failure is thrown at once.  Otherwise exists(target) is issued.
TxInitEnd(t) ==
  /\ fl[t].pc = "init"
  /\ \E result \in Outcomes :
       /\ Charge(result)
       /\ IF result = "ok"
          THEN /\ fl' = [fl EXCEPT ![t].pc = "exists"]
               /\ tx' = [tx EXCEPT ![t] = TxReady]
          ELSE /\ fl' = [fl EXCEPT ![t].pc = "threw"]
               /\ UNCHANGED tx
  /\ UNCHANGED <<fs, lockVars, ao, had, win32, pre, pf>>

\* exists(target) ends: an existing target is backed up first, starting with
\* createBackupDir unless a backup directory was handed in; a missing one goes
\* straight to the files
Exists(t) ==
  /\ fl[t].pc = "exists"
  /\ IF fs[TargetOf(t)] # Absent
     THEN IF fl[t].backupDir = ""
          THEN /\ fl' = [fl EXCEPT ![t].pc = "createBackupDir"]
               /\ UNCHANGED <<tx, ao>>
          ELSE /\ fl' = [fl EXCEPT ![t].pc = "txcopy"]
               /\ tx' = copy(tx, t, TargetOf(t), BackupOf(t))
               /\ UNCHANGED ao
     ELSE NextFile(t, 1, fl)
  /\ UNCHANGED <<fs, lockVars, faults, had, win32, pre, pf>>

\* createBackupDir: an attempt of withRetry(fs.mkdir(backupDir)) ends.
\* Returned: tx.copy(target, backupPath) is called.
CreateBackupDirEnd(t) ==
  /\ fl[t].pc = "createBackupDir"
  /\ \E result \in Outcomes :
       /\ Charge(result)
       /\ CASE withRetry(fl[t].i, DefaultMaxRetries, result) = "return" ->
                 /\ fs' = [fs EXCEPT ![BackupDirName] = Directory]
                 /\ fl' = [fl EXCEPT ![t].pc = "txcopy", ![t].backupDir = BackupDirName]
                 /\ tx' = copy(tx, t, TargetOf(t), BackupOf(t))
                 /\ UNCHANGED ao
            [] withRetry(fl[t].i, DefaultMaxRetries, result) = "retry" ->
                 /\ fl' = [fl EXCEPT ![t].i = @ + 1]
                 /\ UNCHANGED <<fs, tx, ao>>
            [] OTHER -> Catch(t, fl) /\ UNCHANGED fs
  /\ UNCHANGED <<lockVars, had, win32, pre, pf>>

\* tx.copy(target, backupPath) ended: verifyBackup is issued, or the catch
\* block is entered
TxCopyEnd(t) ==
  /\ fl[t].pc = "txcopy"
  /\ tx[t].pc \in {"opReturned", "opThrew"}
  /\ IF tx[t].pc = "opReturned"
     THEN /\ fl' = [fl EXCEPT ![t].pc = "verifyBackup"]
          /\ UNCHANGED <<tx, ao>>
     ELSE Catch(t, fl)
  /\ UNCHANGED <<fs, lockVars, faults, had, win32, pre, pf>>

\* original and backup are two files whose fingerprints differ
Differ(original, backup) ==
  /\ original.kind = "file" /\ backup.kind = "file"
  /\ hashFile(original) # hashFile(backup)

\* (mutant) a failed verification is ignored: the loop over the files goes on
VerifyBackupEndIgnored(t) ==
  /\ fl[t].pc = "verifyBackup"
  /\ LET result == verifyBackup(NodeAt(TargetOf(t)), NodeAt(BackupOf(t)))
         F == [fl EXCEPT ![t].checks =
                 Append(@, [copy |-> BackupOf(t), result |-> result,
                            mismatch |-> Differ(NodeAt(TargetOf(t)), NodeAt(BackupOf(t)))])]
     IN NextFile(t, 1, F)
  /\ UNCHANGED <<fs, lockVars, faults, had, win32, pre, pf>>

\* verifyBackup(target, backupPath) ends
VerifyBackupEnd(t) ==
  /\ fl[t].pc = "verifyBackup"
  /\ LET result == verifyBackup(NodeAt(TargetOf(t)), NodeAt(BackupOf(t)))
         F == [fl EXCEPT ![t].checks =
                 Append(@, [copy |-> BackupOf(t), result |-> result,
                            mismatch |-> Differ(NodeAt(TargetOf(t)), NodeAt(BackupOf(t)))])]
     IN IF result = "return" THEN NextFile(t, 1, F) ELSE Catch(t, F)
  /\ UNCHANGED <<fs, lockVars, faults, had, win32, pre, pf>>

\* fs.readFile(sourcePath) of file j ends: tx.write(targetPath, processed) is
\* called, or the catch block is entered
ReadFileEnd(t) ==
  /\ fl[t].pc = "readFile"
  /\ \E result \in Outcomes :
       /\ Charge(result)
       /\ IF result = "ok"
          THEN /\ fl' = [fl EXCEPT ![t].pc = "txwrite"]
               /\ tx' = write(tx, t, TargetOf(t), TxContent(t, fl[t].j))
               /\ UNCHANGED ao
          ELSE Catch(t, fl)
  /\ UNCHANGED <<fs, lockVars, had, win32, pre, pf>>

\* tx.write(targetPath, processed) ended: on to the next file, or into the
\* catch block
TxWriteEnd(t) ==
  /\ fl[t].pc = "txwrite"
  /\ tx[t].pc \in {"opReturned", "opThrew"}
  /\ IF tx[t].pc = "opReturned"
     THEN NextFile(t, fl[t].j + 1, fl)
     ELSE Catch(t, fl)
  /\ UNCHANGED <<fs, lockVars, faults, had, win32, pre, pf>>

\* tx.commit() returned: the function returns its result
CommitReturned(t) ==
  /\ fl[t].pc = "commit"
  /\ tx[t].pc = "committed"
  /\ fl' = [fl EXCEPT ![t].pc = "returned"]
  /\ UNCHANGED <<fs, lockVars, ao, faults, had, win32, pre, pf, tx>>

\* tx.rollback() returned: the catch block rethrows the error
RollbackReturned(t) ==
  /\ fl[t].pc = "rollback"
  /\ tx[t].pc = "rolledBack"
  /\ fl' = [fl EXCEPT ![t].pc = "threw"]
  /\ UNCHANGED <<fs, lockVars, ao, faults, had, win32, pre, pf, tx>>

FilesStep(t) ==
  \/ copyCodexDirectory(t) \/ copyAdditionalFiles(t) \/ TxInitEnd(t) \/ Exists(t)
  \/ CreateBackupDirEnd(t) \/ TxCopyEnd(t) \/ VerifyBackupEnd(t)
  \/ ReadFileEnd(t) \/ TxWriteEnd(t) \/ CommitReturned(t) \/ RollbackReturned(t)

\* the turns of the TransactionLog calls made by the two functions
TxTurn(t) ==
  \/ Access(t) \/ BackupEnd(t) \/ MutateEnd(t)
  \/ RbRm(t) \/ RbMoveEnd(t) \/ CommitEnd(t)

FlIdle == [FlOff EXCEPT !.pc = "idle"]

\* the project before the calls: AGENTS.md and the .codex tree each exist or
\* not; the backup directory, named after the time of the call, does not
\* exist yet, and so neither does a file in it
ProjectDisks ==
  {[d EXCEPT ![CodexTarget] = c] : d \in {e \in Disks : e[FilesBackup] = Absent},
                                   c \in {Absent, Old}}

InitFiles ==
  /\ fs \in ProjectDisks
  /\ locks = {}
  /\ lockQueue = [p \in LockKeys |-> <<>>]
  /\ lk = [t \in Tasks |-> IdleLock]
  /\ ao = [t \in Tasks |-> IdleOp]
  /\ faults = 0
  /\ win32 \in BOOLEAN
  /\ pre = fs
  /\ pf = PfOff
  /\ tx = [t \in Tasks |-> TxOff]
  /\ fl = [t \in Tasks |-> IF t \in 1..NumCopies THEN FlIdle ELSE FlOff]
  /\ had = [t \in Tasks |-> [p \in Targets |-> "?"]]

\* NumCopies concurrent calls of the two functions on one project
NextFiles ==
  \/ \E t \in 1..NumCopies : FilesStep(t)
  \/ \E t \in 1..NumCopies : TxTurn(t)
  \/ \E t \in 1..NumCopies : AtomicStep(t) \/ RmSource(t)
  \/ \E t \in 1..NumCopies : LockStep(t)

SpecFiles == InitFiles /\ [][NextFiles]_vars

\* ------------------------------------------------------------------ init
\* init(projectPath, {dryRun}) of one caller, task InitTask.  pf is the
\* record of the call: pc its position, dryRun the option, success the
\* field of the InitResult it returns.
InitTask == 1

\* the catch block of init: the error becomes a result with success: false
InitFailed == [pf EXCEPT !.pc = "returned", !.success = FALSE]

\* validateSkelFiles ends: the skeleton files of the package are there, or
\* the package is corrupted; then fs.stat(projectPath) is issued
ValidateSkelFiles ==
  /\ pf.pc = "validateSkelFiles"
  /\ \E skelExists \in BOOLEAN :
       pf' = IF skelExists THEN [pf EXCEPT !.pc = "stat"] ELSE InitFailed
  /\ UNCHANGED <<fs, lockVars, ao, faults, had, win32, pre, tx, fl>>

\* validateTargetDirectory: fs.stat(projectPath) ends; for a directory
\* fs.writeFile(testFile, 'test') is issued
StatTarget ==
  /\ pf.pc = "stat"
  /\ \E isDirectory \in BOOLEAN :
       pf' = IF isDirectory THEN [pf EXCEPT !.pc = "writeTestFile"] ELSE InitFailed
  /\ UNCHANGED <<fs, lockVars, ao, faults, had, win32, pre, tx, fl>>

\* validateTargetDirectory: fs.writeFile(testFile, 'test') ends; the file is
\* in the project directory, and fs.unlink(testFile) is issued
WriteTestFile ==
  /\ pf.pc = "writeTestFile"
  /\ \E result \in {"ok", "EACCES"} :
       IF result = "ok"
       THEN /\ fs' = [fs EXCEPT ![TestFile] = "test"]
            /\ pf' = [pf EXCEPT !.pc = "unlinkTestFile"]
       ELSE /\ pf' = InitFailed
            /\ UNCHANGED fs
  /\ UNCHANGED <<lockVars, ao, faults, had, win32, pre, tx, fl>>

\* validateTargetDirectory: fs.unlink(testFile) ends.  Then
\* checkExistingFiles, detectProjectContext and getTemplateVariables read
\* the project.
UnlinkTestFile ==
  /\ pf.pc = "unlinkTestFile"
  /\ \E result \in UnlinkOutcomes(TestFile) :
       IF result = "ok"
       THEN /\ fs' = [fs EXCEPT ![TestFile] = Absent]
            /\ pf' = [pf EXCEPT !.pc = "detectProjectContext"]
       ELSE /\ pf' = InitFailed
            /\ UNCHANGED fs
  /\ UNCHANGED <<lockVars, ao, faults, had, win32, pre, tx, fl>>

\* the reads of the project end: with dryRun performDryRun is called, which
\* counts the files of the skeleton; otherwise performFileCopy is called,
\* which calls copyCodexDirectory
DetectProjectContext ==
  /\ pf.pc = "detectProjectContext"
  /\ IF pf.dryRun
     THEN /\ pf' = [pf EXCEPT !.pc = "performDryRun"]
          /\ UNCHANGED fl
     ELSE /\ pf' = [pf EXCEPT !.pc = "performFileCopy"]
          /\ fl' = [fl EXCEPT ![InitTask] = FlIdle]
  /\ UNCHANGED <<fs, lockVars, ao, faults, had, win32, pre, tx>>

\* performDryRun returns: success: true, dryRun: true
PerformDryRun ==
  /\ pf.pc = "performDryRun"
  /\ pf' = [pf EXCEPT !.pc = "returned", !.success = TRUE]
  /\ UNCHANGED <<fs, lockVars, ao, faults, had, win32, pre, tx, fl>>

\* performFileCopy: copyCodexDirectory is called
CopyCodex ==
  /\ pf.pc = "performFileCopy"
  /\ copyCodexDirectory(InitTask)

\* performFileCopy: copyCodexDirectory returned, copyAdditionalFiles is
\* called with codexResult.backupDir, which is also the backupDir of the
\* result of performFileCopy
CopyAdditional ==
  /\ pf.pc = "performFileCopy"
  /\ fl[InitTask].fn = "copyCodexDirectory" /\ fl[InitTask].pc = "returned"
  /\ fl' = [fl EXCEPT ![InitTask] = [pc |-> "init", fn |-> "copyAdditionalFiles",
                                     n |-> 1, j |-> 0, i |-> 0, checks |-> <<>>,
                                     backupDir |-> fl[InitTask].backupDir]]
  /\ pf' = [pf EXCEPT !.backupDir = fl[InitTask].backupDir]
  /\ UNCHANGED <<fs, lockVars, ao, faults, had, win32, pre, tx>>

\* one of the two functions threw: the catch block of init
FileCopyThrew ==
  /\ pf.pc = "performFileCopy"
  /\ fl[InitTask].pc = "threw"
  /\ pf' = InitFailed
  /\ UNCHANGED <<fs, lockVars, ao, faults, had, win32, pre, tx, fl>>

\* copyAdditionalFiles returned: validateInstallation looks for AGENTS.md
\* and init returns
ValidateInstallation ==
  /\ pf.pc = "performFileCopy"
  /\ fl[InitTask].fn = "copyAdditionalFiles" /\ fl[InitTask].pc = "returned"
  /\ pf' = [pf EXCEPT !.pc = "returned", !.success = fs[FilesTarget] # Absent]
  /\ UNCHANGED <<fs, lockVars, ao, faults, had, win32, pre, tx, fl>>

InitInit ==
  /\ fs \in ProjectDisks
  /\ locks = {}
  /\ lockQueue = [p \in LockKeys |-> <<>>]
  /\ lk = [t \in Tasks |-> IdleLock]
  /\ ao = [t \in Tasks |-> IdleOp]
  /\ faults = 0
  /\ win32 \in BOOLEAN
  /\ pre = fs
  /\ pf \in {[fn |-> "init", pc |-> "validateSkelFiles", dryRun |-> d, success |-> FALSE,
              backupDir |-> ""] : d \in BOOLEAN}
  /\ tx = [t \in Tasks |-> TxOff]
  /\ fl = [t \in Tasks |-> FlOff]
  /\ had = [t \in Tasks |-> [p \in Targets |-> "?"]]

\* One init call in the process, and other processes that take and drop the
\* marker files of the project.  No acquireLock call of a lone caller finds
\* the path locked in its own process, so no waiter and no timeout.
NextInit ==
  \/ ValidateSkelFiles \/ StatTarget \/ WriteTestFile \/ UnlinkTestFile
  \/ DetectProjectContext \/ PerformDryRun
  \/ CopyCodex \/ CopyAdditional \/ FileCopyThrew \/ ValidateInstallation
  \/ TxInitEnd(InitTask) \/ Exists(InitTask) \/ CreateBackupDirEnd(InitTask)
  \/ TxCopyEnd(InitTask) \/ VerifyBackupEnd(InitTask) \/ ReadFileEnd(InitTask)
  \/ TxWriteEnd(InitTask) \/ CommitReturned(InitTask) \/ RollbackReturned(InitTask)
  \/ TxTurn(InitTask)
  \/ AtomicStep(InitTask) \/ RmSource(InitTask)
  \/ CreateLockFile(InitTask) \/ ReleaseFinally(InitTask)
  \/ \E p \in Targets : ExternalLock(p) \/ ExternalUnlock(p)

SpecInit == InitInit /\ [][NextInit]_vars

\* the files of the project, the marker files of other processes left out
ProjectFiles == AllPaths \ {LockFile(p) : p \in LockPaths}

\* C20: during and after init(projectPath, {dryRun: true}) every file of the
\* project holds what it held before the call: nothing is created, modified
\* or deleted.
C20_DryRunChangesNothing ==
  (pf.fn = "init" /\ pf.dryRun) => \A p \in ProjectFiles : fs[p] = pre[p]

\* the targets of performFileCopy: the .codex tree and AGENTS.md
InitTargets == {CodexTarget, FilesTarget}

\* C30: when init has returned a failure out of its file copying, the
\* targets of the project all hold what they held before the call, or all
\* hold the new content; never some new and the others not.
C30_FailureLeavesNoMixture ==
  (pf.fn = "init" /\ pf.pc = "returned" /\ ~pf.success /\ fl[InitTask].pc = "threw")
    => \/ \A p \in InitTargets : fs[p] = pre[p]
       \/ \A p \in InitTargets : fs[p] = TxContent(InitTask, 1)

\* C32: when performFileCopy has returned and one of its two calls made a
\* backup (the backup directory of the second call, handed on from the first
\* or created by it, is set), the result of performFileCopy carries the
\* backup directory.
C32_ResultCarriesBackupDir ==
  (/\ pf.fn = "init" /\ pf.pc = "returned"
   /\ fl[InitTask].fn = "copyAdditionalFiles" /\ fl[InitTask].pc = "returned")
    => (fl[InitTask].backupDir # "" => pf.backupDir # "")

\* the directories a run can make in the project: the disk of the model
\* holds one path for each tree, so of the directories made on the way only
\* the one made by createBackupDir has a path of its own
MadeDirs == {BackupDirName}

\* C37: when a call of copyCodexDirectory or copyAdditionalFiles has thrown
\* after its rollback, no directory made by the run exists that did not
\* exist before it.
C37_RollbackLeavesNoNewDirectory ==
  (pf.fn = "init" /\ fl[InitTask].pc = "threw" /\ tx[InitTask].pc = "rolledBack")
    => \A p \in MadeDirs : fs[p] # Absent => pre[p] # Absent

\* ----------------------------------------------- claims on TransactionLog
\* C2: after write/copy calls, the last of which may have failed, and one
\* rollback() none of whose steps failed, every target holds exactly what it
\* held before the transaction, and a target that did not exist does not.
C2_RollbackRestores ==
  (tx[1].pc = "rolledBack" /\ ~tx[1].rbErr) => \A p \in Targets : fs[p] = pre[p]

\* a rollback, after a failed last operation, of a transaction that had
\* replaced an existing target and created a missing one
C2_Witness ==
  /\ tx[1].pc = "rolledBack" /\ ~tx[1].rbErr
  /\ tx[1].threw /\ Len(tx[1].ops) >= 2
  /\ \E j \in 1..Len(tx[1].ops) : tx[1].ops[j].type = "backup"
  /\ \E j \in 1..Len(tx[1].ops) :
       /\ tx[1].ops[j].type \in {"write", "copy"}
       /\ pre[tx[1].ops[j].path] = Absent

\* C25: once commit() or a rollback() of a transaction has returned, no
\* step changes a target path: a further rollback() neither deletes nor
\* alters what the targets hold.
C25_EndedTransactionChangesNothing ==
  [][\A p \in Targets : tx[1].ended => fs'[p] = fs[p]]_vars

\* the record that the loop of rollback() is processing
Current(t) == tx[t].ops[tx[t].k]
Removes(t) ==
  /\ tx[t].pc = "rb_rm"
  /\ fs[Current(t).path] # Absent /\ fs'[Current(t).path] = Absent

\* C26: rollback() deletes a path only for a Write/Copy record of a path that
\* has no Backup record in the transaction; a path that has one is never
\* deleted.
C26_RollbackDeletesOnlyCreatedPaths ==
  [][\A t \in Tasks :
       Removes(t) => \A j \in 1..Len(tx[t].ops) :
                       ~(tx[t].ops[j].type = "backup" /\ tx[t].ops[j].path = Current(t).path)]_vars

\* C27: every invocation of rollback() processes the records in the reverse
\* of the order in which they were pushed: its k-th step is on the k-th
\* record from the end.
C27_RollbackInReverseOrder ==
  \A t \in Tasks :
    tx[t].pc \in {"rb_rm", "rb_move"} =>
      Current(t) = tx[t].log[Len(tx[t].log) + 1 - tx[t].k]

\* the operations in the order they were pushed
Pushed(t) == IF tx[t].pc \in {"rb_rm", "rb_move", "rolledBack"} THEN Reverse(tx[t].ops) ELSE tx[t].ops
Mutations(t, p) ==
  {j \in 1..Len(Pushed(t)) : Pushed(t)[j].type \in {"write", "copy"} /\ Pushed(t)[j].path = p}
FirstMutation(t, p) == CHOOSE j \in Mutations(t, p) : \A k \in Mutations(t, p) : j <= k
BackupsBeforeFirst(t, p) ==
  {j \in 1..(FirstMutation(t, p) - 1) : Pushed(t)[j].type = "backup" /\ Pushed(t)[j].path = p}

\* C9: a target that existed when the transaction first mutated it has
\* exactly one Backup record before its first Write/Copy record, and a target
\* that did not exist has none.
C9_OneBackupBeforeFirstMutation ==
  \A t \in Tasks, p \in Targets :
    Mutations(t, p) # {} =>
      /\ had[t][p] = "existed" => Cardinality(BackupsBeforeFirst(t, p)) = 1
      /\ had[t][p] = "absent" => Cardinality(BackupsBeforeFirst(t, p)) = 0

\* C10: in copyCodexDirectory and copyAdditionalFiles commit() is invoked
\* only on a transaction none of whose write/copy calls threw, and once one
\* threw, the failure is delivered to the caller only after rollback()
\* returned.
C10_CommitAfterSuccessRollbackBeforeThrow ==
  \A t \in Tasks :
    /\ tx[t].pc \in {"commit", "committed"} => ~tx[t].threw
    /\ (fl[t].pc = "threw" /\ tx[t].threw) => tx[t].pc = "rolledBack"

\* one call threw after a failed operation and a rollback that had records
\* to undo, and another returned after its commit
C10_Witness ==
  \E t, u \in Tasks :
    /\ fl[t].pc = "threw" /\ tx[t].threw /\ Len(tx[t].ops) > 0
    /\ fl[u].pc = "returned" /\ tx[u].pc = "committed" /\ Len(tx[u].ops) > 0

\* task t is the only caller on the project
Alone(t) == \A u \in Tasks \ {t} : fl[u].pc \in {"idle", "off"}

\* C18: after a successful copy of AGENTS.md into a project in which it
\* already existed, made with no other caller on the project, the copy under
\* the backup directory holds the bytes AGENTS.md held before, and AGENTS.md
\* holds the newly rendered content.
C18_BackupHoldsPreviousContent ==
  \A t \in Tasks :
    (/\ fl[t].fn = "copyAdditionalFiles" /\ fl[t].pc = "returned"
     /\ Alone(t) /\ pre[FilesTarget] # Absent)
      => /\ fs[FilesBackup] = pre[FilesTarget]
         /\ fs[FilesTarget] = TxContent(t, 1)

\* such a copy has returned into a project that had AGENTS.md and no copy of
\* it under the backup directory
C18_Witness ==
  \E t \in Tasks :
    /\ fl[t].fn = "copyAdditionalFiles" /\ fl[t].pc = "returned" /\ Alone(t)
    /\ pre[FilesTarget] = Old /\ pre[FilesBackup] = Absent
    /\ fs[FilesBackup] = Old /\ fs[FilesTarget] = TxContent(t, 1)

\* every one of the concurrent calls copied AGENTS.md and has returned or
\* thrown
Settled ==
  \A t \in 1..NumCopies :
    fl[t].fn = "copyAdditionalFiles" /\ fl[t].pc \in {"returned", "threw"}

\* the documents the calls render
Rendered == {TxContent(t, 1) : t \in 1..NumCopies}

\* C19: once concurrent calls on one project have all settled, having met no
\* I/O fault, at least one of them has succeeded and AGENTS.md holds one
\* complete rendered document.
C19_OneSucceedsAndDocumentComplete ==
  (Settled /\ faults = 0)
    => /\ \E t \in 1..NumCopies : fl[t].pc = "returned"
       /\ fs[FilesTarget] \in Rendered

\* A mutation of path p by task t is in flight: the removal of the target or
\* the rename onto it in atomicWrite / atomicCopy / atomicMove (also when the
\* move restores a backup in rollback), or the fs.rm of a rollback step.
InFlight(t, p) ==
  \/ ao[t].pc \in {"unlinkTarget", "rename"} /\ ao[t].dst = p
  \/ tx[t].pc = "rb_rm" /\ tx[t].ops[tx[t].k].path = p

\* C7: at any instant at most one mutation of a target path is in flight,
\* over all tasks and transactions.
C7_OneMutationInFlight ==
  \A p \in Targets : Cardinality({t \in Tasks : InFlight(t, p)}) <= 1

\* ---------------------------------------------------- claims on the lock
Waiting(t, path) == lk[t].pc = "waiting" /\ lk[t].path = path
InQueue(t) == IndexOf(lockQueue[lk[t].path], WrappedResolve(t, lk[t].n)) > 0

\* C1: for every path, at most one caller at a time holds it (acquireLock
\* has returned to it and it has not yet invoked the release handle).
C1_AtMostOneHolder ==
  \A p \in LockPaths : Cardinality({t \in Tasks : Holder(t, p)}) <= 1

\* a holder of a path that another caller held before it, with a third queued
C1_Witness ==
  \E p \in LockPaths, t, u, v \in Tasks :
    /\ Holder(t, p)
    /\ lk[u].pc = "released" /\ lk[u].path = p
    /\ Waiting(v, p)

\* C5: after a queued acquireLock call failed by timeout, the waiter queue
\* of its path holds no entry of that call.
C5_NoResidualEntry ==
  \A t \in Tasks : lk[t].pc = "timedout" => ~InQueue(t)

\* C6: a call that failed by timeout stays failed: it never goes on to hold
\* the path, whatever is released later.
C6_TimedOutNeverHolds ==
  [][\A t \in Tasks :
       (lk[t].pc = "timedout" /\ lk'[t].n = lk[t].n) => lk'[t].pc = "timedout"]_vars

\* a call that timed out, and whose queue entry a later release has called
C6_Witness ==
  \E t \in Tasks : lk[t].pc = "timedout" /\ ~InQueue(t)

\* C8: the lock is granted in arrival order: a step that grants a path to a
\* caller leaves no earlier caller of that path waiting.
GrantedNow(t) ==
  lk'[t].pc = "creating" /\ (lk[t].pc # "creating" \/ lk'[t].n # lk[t].n)
ArrivedBefore(w, t) ==
  IF lk[t].pc = "waiting" /\ lk'[t].n = lk[t].n
  THEN IndexOf(lockQueue[lk[t].path], WrappedResolve(w, lk[w].n))
         < IndexOf(lockQueue[lk[t].path], WrappedResolve(t, lk[t].n))
  ELSE TRUE
C8_FifoGrant ==
  [][\A t, w \in Tasks :
       (t # w /\ GrantedNow(t) /\ Waiting(w, lk'[t].path)) => ~ArrivedBefore(w, t)]_vars

\* C23: a release leaves no live waiter unwoken while the lock is free: at
\* every moment a caller that waits for a path (and has not timed out) waits
\* behind a caller that has the path.
C23_NoLostWakeUp ==
  \A t \in Tasks : lk[t].pc = "waiting" => lk[t].path \in locks

\* C24: calls of acquireLock whose path strings denote the same file contend
\* for one lock: while one of them holds the file, another does not go for
\* the marker file but waits for the release, and no two of them hold the
\* file at once.
C24_OneLockPerFile ==
  \A t, u \in Tasks :
    (t # u /\ lk[t].pc = "holding" /\ FileOf(lk[u].path) = FileOf(lk[t].path))
      => lk[u].pc \notin {"creating", "holding"}

\* ------------------------------------------- claims on backup verification
\* the copy at path c has been compared with its original by a verifyBackup
\* call of task t that returned
Verified(t, c) ==
  \E i \in DOMAIN fl[t].checks : fl[t].checks[i].copy = c /\ fl[t].checks[i].result = "return"

\* a verifyBackup call of task t found two files that differ
Mismatch(t) == \E i \in DOMAIN fl[t].checks : fl[t].checks[i].mismatch

\* the transaction of task t mutates path p, or has mutated it
Mutates(t, p) ==
  \/ \E i \in DOMAIN tx[t].log : tx[t].log[i].type # "backup" /\ tx[t].log[i].path = p
  \/ tx[t].pc \in {"access", "backup", "mutate"} /\ tx[t].path = p
  \/ ao[t].pc # "idle" /\ ao[t].dst = p

\* C21: once a Backup record of the target is pushed (write/copy goes on to
\* mutate the target at once), the record's copy of the target has been
\* verified against the original.
C21_BackupVerifiedBeforeMutation ==
  \A t \in 1..NumCopies : \A i \in DOMAIN tx[t].log :
    (tx[t].log[i].type = "backup" /\ tx[t].log[i].path = TargetOf(t))
      => Verified(t, tx[t].log[i].backup)

\* C22: once verifyBackup has reported a mismatch to a call, that call makes
\* no second verification, its transaction never mutates the target, and the
\* call is in its rollback or has thrown after the rollback returned; it never
\* commits or returns.
C22_MismatchHaltsTransaction ==
  \A t \in 1..NumCopies :
    Mismatch(t) =>
      /\ Len(fl[t].checks) = 1
      /\ ~Mutates(t, TargetOf(t))
      /\ fl[t].pc \in {"rollback", "threw"}
      /\ tx[t].pc \notin {"commit", "committed"}
      /\ fl[t].pc = "threw" => tx[t].pc = "rolledBack"

\* a call has thrown, after its rollback, on a mismatch between AGENTS.md
\* and its copy
C22_Witness ==
  \E t \in 1..NumCopies :
    /\ Mismatch(t) /\ fl[t].pc = "threw" /\ tx[t].pc = "rolledBack"
    /\ Len(tx[t].log) > 0

\* ------------------------------------------------ claims on rollback steps
\* C28: after a step of rollback() failed, rollback() is at a later record
\* or has returned past the last record, and the caller of
\* copyCodexDirectory / copyAdditionalFiles gets the failure only from the
\* catch block's rethrow, after rollback() returned.
C28_FailedStepDoesNotAbortRollback ==
  \A t \in 1..NumCopies :
    tx[t].rbErr =>
      /\ \/ tx[t].pc \in {"rb_rm", "rb_move"} /\ tx[t].k > tx[t].rbAt
         \/ tx[t].pc = "rolledBack" /\ tx[t].k = Len(tx[t].ops) + 1
      /\ fl[t].pc \in {"rollback", "threw"}
      /\ fl[t].pc = "threw" => tx[t].pc = "rolledBack"

\* a call has thrown after a rollback one of whose steps failed with records
\* still to process
C28_Witness ==
  \E t \in 1..NumCopies :
    /\ fl[t].pc = "threw" /\ tx[t].rbErr
    /\ tx[t].rbAt < Len(tx[t].ops)

\* -------------------------------------------------------- limitConcurrency
\* mapWithLimit(items, limit, fn) is limitConcurrency over the tasks
\* () => fn(item).  pf holds the call: n the number of tasks, i the task of
\* the loop, started and done the tasks started and fulfilled, executing and
\* results the two arrays, out the array as it is when the call resolves.
\* The tasks are ones that fulfil, as the executeQuiet calls of getGitInfo.
\* the value fn(items[k]) fulfils with
Outcome(k) == "r" \o ToString(k)

\* executing.findIndex(p => p === promise): -1 when there is none
FindIndex(executing, promise) ==
  IF \E k \in 1..Len(executing) : executing[k] = promise
  THEN CHOOSE k \in 1..Len(executing) :
         /\ executing[k] = promise
         /\ \A j \in 1..(k - 1) : executing[j] # promise
  ELSE -1

\* executing.splice(index, 1), index counted from 1 here; -1 is the last
\* element
SpliceAt(executing, index) ==
  Splice(executing, IF index = -1 THEN Len(executing) ELSE index)

InitLimit ==
  /\ fs = [p \in AllPaths |-> Absent]
  /\ locks = {}
  /\ lockQueue = [p \in LockKeys |-> <<>>]
  /\ lk = [t \in Tasks |-> IdleLock]
  /\ ao = [t \in Tasks |-> IdleOp]
  /\ faults = 0
  /\ win32 = FALSE
  /\ pre = fs
  /\ pf \in {[fn |-> "limitConcurrency", pc |-> "loop", n |-> n, limit |-> limit, i |-> 1,
              started |-> {}, done |-> {}, executing |-> <<>>, results |-> <<>>,
              out |-> <<>>] : n \in 0..MaxItems, limit \in 1..MaxLimit}
  /\ tx = [t \in Tasks |-> TxOff]
  /\ fl = [t \in Tasks |-> FlOff]
  /\ had = [t \in Tasks |-> [p \in Targets |-> "?"]]

\* one turn of the for loop up to its await: task() is called, its promise
\* pushed, and with limit promises or more in executing Promise.race is
\* awaited
StartTask ==
  /\ pf.fn = "limitConcurrency" /\ pf.pc = "loop" /\ pf.i <= pf.n
  /\ LET executing == Append(pf.executing, pf.i) IN
       pf' = [pf EXCEPT !.started = @ \cup {pf.i},
                        !.executing = executing,
                        !.pc = IF Len(executing) >= pf.limit THEN "race" ELSE "loop",
                        !.i = IF Len(executing) >= pf.limit THEN @ ELSE @ + 1]
  /\ UNCHANGED <<fs, lockVars, ao, faults, had, win32, pre, tx, fl>>

\* a started task fulfils: results.push(result)
TaskDone ==
  /\ pf.fn = "limitConcurrency"
  /\ \E k \in pf.started \ pf.done :
       pf' = [pf EXCEPT !.done = @ \cup {k}, !.results = Append(@, Outcome(k))]
  /\ UNCHANGED <<fs, lockVars, ao, faults, had, win32, pre, tx, fl>>

\* Promise.race(executing) settles, one of its promises being fulfilled: the
\* promise of the current task is spliced out of executing
RaceEnd ==
  /\ pf.fn = "limitConcurrency" /\ pf.pc = "race"
  /\ \E k \in 1..Len(pf.executing) : pf.executing[k] \in pf.done
  /\ pf' = [pf EXCEPT !.executing = SpliceAt(@, FindIndex(@, pf.i)),
                      !.pc = "loop", !.i = @ + 1]
  /\ UNCHANGED <<fs, lockVars, ao, faults, had, win32, pre, tx, fl>>

\* past the last task: Promise.all(executing) settles and results is
\* returned
AllEnd ==
  /\ pf.fn = "limitConcurrency" /\ pf.pc = "loop" /\ pf.i > pf.n
  /\ \A k \in 1..Len(pf.executing) : pf.executing[k] \in pf.done
  /\ pf' = [pf EXCEPT !.pc = "returned", !.out = pf.results]
  /\ UNCHANGED <<fs, lockVars, ao, faults, had, win32, pre, tx, fl>>

NextLimit == StartTask \/ TaskDone \/ RaceEnd \/ AllEnd

SpecLimit == InitLimit /\ [][NextLimit]_vars

\* ----------------------------------------------- claims on limitConcurrency
\* C38: when mapWithLimit resolves, fn has completed for every item and the
\* array it resolves with has one entry per item, entry i being the outcome
\* of fn(items[i]).
C38_ResultsCompleteAndInOrder ==
  (pf.fn = "limitConcurrency" /\ pf.pc = "returned") =>
    /\ pf.done = 1..pf.n
    /\ Len(pf.out) = pf.n
    /\ \A k \in 1..pf.n : pf.out[k] = Outcome(k)

\* C39: at every instant at most limit tasks are started and not completed.
C39_AtMostLimitRunning ==
  pf.fn = "limitConcurrency" => Cardinality(pf.started \ pf.done) <= pf.limit

\* ------------------------------------------- claims on the marker file
\* task u is suspended in the queue of path
Queued(u, path) == lk[u].pc = "waiting" /\ lk[u].path = path

\* C36: acquireLock(path) fails on the marker file only at its 4th creation
\* attempt; by that step the caller is no holder, and either a caller that
\* was suspended in the queue of the path is resumed, or nobody was suspended
\* there and the path is left unlocked.
C36_MarkerFailureWakesNext ==
  [][\A t \in Tasks :
       (lk[t].pc = "creating" /\ lk'[t].pc = "failed") =>
         /\ lk[t].i + 1 = LockMaxRetries + 1
         /\ IF \E u \in Tasks : Queued(u, lk[t].path)
            THEN \E u \in Tasks : Queued(u, lk[t].path) /\ lk'[u].pc = "creating"
            ELSE lk[t].path \notin locks']_vars

\* ---------------------------------------------------- claims on termination
\* C35: every atomicWrite, atomicCopy and atomicMove call, and every
\* acquireLock call made by one, eventually returns or throws.
C35_EveryCallEnds ==
  \A t \in Writers :
    /\ (ao[t].pc # "idle") ~> (ao[t].pc \in {"returned", "threw"})
    /\ (lk[t].pc \in {"waiting", "creating"})
         ~> (lk[t].pc \in {"holding", "unlinking", "released", "timedout", "failed"})

\* one call has returned and another, queued behind it, has thrown on the
\* acquisition timeout
C35_Witness ==
  \E t, u \in Writers :
    /\ ao[t].pc = "returned"
    /\ ao[u].pc = "threw" /\ lk[u].pc = "timedout"

\* ------------------------------------------- claims on the original content
\* the bytes p held before the transaction of task t are at p or in a backup
\* copy under the backup root of the transaction
Kept(t, p) == fs[p] = pre[p] \/ \E k \in 1..MaxOps : fs[BackupPath(t, k)] = pre[p]

\* C33: from the first operation of a transaction up to its commit(), its
\* rollback included, every target that existed before the transaction has
\* its previous bytes at the target or in a backup copy under the backup root.
C33_OriginalNeverLostBeforeCommit ==
  \A p \in Targets :
    (tx[1].pc \notin {"off", "commit", "committed"} /\ pre[p] # Absent) => Kept(1, p)

\* a rollback one of whose steps failed has returned and left a target
\* without its previous bytes, which are in the backup copy
C33_Witness ==
  \E p \in Targets :
    /\ tx[1].pc = "rolledBack" /\ tx[1].rbErr
    /\ pre[p] # Absent /\ fs[p] # pre[p]
    /\ \E k \in 1..MaxOps : fs[BackupPath(1, k)] = pre[p]

\* --------------------------------------- claims on concurrent transactions
\* path p holds content that the committed transaction of task u wrote to it
CommittedAt(u, p) ==
  /\ tx[u].pc = "committed"
  /\ \E i \in DOMAIN tx[u].log : tx[u].log[i].type = "write" /\ tx[u].log[i].path = p
  /\ \E j \in 1..MaxOps : fs[p] = TxContent(u, j)

\* C34: no step taken while a transaction is in its rollback changes a path
\* that holds what another transaction wrote to it and committed.
C34_RollbackSparesCommitted ==
  [][\A t, u \in 1..NumTx : \A p \in Targets :
       (t # u /\ tx[t].pc \in {"rb_rm", "rb_move"} /\ CommittedAt(u, p))
         => fs'[p] = fs[p]]_vars

====
